---- MODULE Spec2Model ----
(***************************************************************************)
(* Model of the A/B decision engine of ab-factory-demo                     *)
(* (src/41_agents/ab_factory/decision_agent.py): signal extraction, the    *)
(* priority-ordered decision chain and the confidence scorer, driven the   *)
(* way decision_agent.run drives them.                                     *)
(*                                                                         *)
(* Numbers.  Python floats are modelled as fixed-point integers in units   *)
(* of 0.001: a relative effect 0.032 is 32, an uplift of 3.2 (percent) is  *)
(* 3200, alpha 0.05 is 50, a weight -1.5 is -1500.  "x * 100" of the code  *)
(* is a real multiplication by 100 here.  The logistic value is kept in    *)
(* units of 0.000001 and the rounded confidence in units of 0.0001.        *)
(* NaN and infinities are not modelled.                                    *)
(*                                                                         *)
(* Optional values.  Python's None / an absent dict key is the empty set,  *)
(* a present value x is the singleton {x}.                                 *)
(***************************************************************************)
EXTENDS Integers, Sequences, FiniteSets, TLC

----------------------------------------------------------------------------
(* Optional values and small helpers *)

Null == {}

Some(x) == {x}

Val(o) == CHOOSE x \in o : TRUE

\* dict.get(key, default)
GetOr(o, d) == IF o = Null THEN d ELSE Val(o)

Abs(x) == IF x < 0 THEN -x ELSE x

Max2(a, b) == IF a >= b THEN a ELSE b

Min2(a, b) == IF a <= b THEN a ELSE b

SeqMax(s) == CHOOSE m \in {s[i] : i \in DOMAIN s} : \A i \in DOMAIN s : s[i] <= m

SeqMin(s) == CHOOSE m \in {s[i] : i \in DOMAIN s} : \A i \in DOMAIN s : m <= s[i]

----------------------------------------------------------------------------
(* Data table cells.  A csv cell is text; what matters to the engine is    *)
(* whether float() accepts it and which number it denotes.                 *)

Num(n) == [t |-> "num", v |-> n]

Empty == [t |-> "empty", v |-> 0]

Junk == [t |-> "junk", v |-> 0]

\* column names built by the code with f-strings
EffectCol(metric) == <<metric, "_effect_relative">>

PvalCol(metric) == <<metric, "_p_value">>

RawCol(metric) == <<metric, "">>

\* row.get(col, "")
Cell(row, col) == IF col \in DOMAIN row.cols THEN row.cols[col] ELSE Empty

\* _sf: float(v), None when float() rejects the text
sf(c) == IF c.t = "num" THEN Some(c.v) ELSE Null

----------------------------------------------------------------------------
(* Contract notes: text as a sequence of characters *)

UpperOf == [a |-> "A", c |-> "C", d |-> "D", e |-> "E", g |-> "G", h |-> "H",
            l |-> "L", n |-> "N", r |-> "R", s |-> "S", t |-> "T", v |-> "V",
            w |-> "W"]

\* str.lower() on one character
LowerChar(ch) ==
    IF \E k \in DOMAIN UpperOf : UpperOf[k] = ch
    THEN CHOOSE k \in DOMAIN UpperOf : UpperOf[k] = ch
    ELSE ch

Lower(s) == [i \in DOMAIN s |-> LowerChar(s[i])]

\* kw in text
Contains(text, kw) ==
    \E i \in 0..(Len(text) - Len(kw)) :
        \A j \in 1..Len(kw) : text[i + j] = kw[j]

REVERSAL_KEYWORDS ==
    << <<"r","e","v","e","r","s","a","l">>,
       <<"r","e","v","e","r","s">>,
       <<"t","r","e","n","d"," ","c","h","a","n","g","e">> >>

----------------------------------------------------------------------------
(* Reason codes and evidence identifiers: <<prefix, metric>>, the metric   *)
(* being "" for the codes that carry none.                                 *)

Code(name) == <<name, "">>

HardCode(metric) == <<"guardrail_violation:", metric>>

SoftCode(metric) == <<"guardrail_soft_violation:", metric>>

MissingGuardrail(metric) == <<"guardrail:", metric>>

----------------------------------------------------------------------------
(* Defaults the code passes to dict.get, in the model's units *)

DefaultPrimaryMetric == "revenue"

DefaultAlpha == 50

DefaultPracticalPct == 500

DefaultGuardThresholdPct == 0

DefaultMinGap == 2000

DefaultBase == 0

DefaultWeight == 0

----------------------------------------------------------------------------
(* Signal extraction: _extract_signals *)

\* dict[key] = value
Put(d, k, x) == [y \in DOMAIN d \cup {k} |-> IF y = k THEN x ELSE d[y]]

\* the rows of the overall population, test and control
TestAll(rows) == SelectSeq(rows, LAMBDA r : r.variant # "control" /\ r.segment = "all")

ControlAll(rows) == SelectSeq(rows, LAMBDA r : r.variant = "control" /\ r.segment = "all")

\* (variant: no name of last resort)
PrimaryMetricNameNoDefault(contract, policy) ==
    GetOr(contract.pm_name, GetOr(policy.pm_name, ""))

\* pm.get("name", policy.get("primary_metric", {}).get("name", "revenue"))
PrimaryMetricName(contract, policy) ==
    GetOr(contract.pm_name, GetOr(policy.pm_name, DefaultPrimaryMetric))

\* contract.get("stats", {}).get("alpha", policy.get("significance", {}).get("alpha", 0.05))
CaseAlpha(contract, policy) ==
    GetOr(contract.alpha, GetOr(policy.alpha, DefaultAlpha))

\* is_sig = pval is not None and pval <= alpha
IsSignificant(pval, alpha) == pval # Null /\ Val(pval) <= alpha

\* (tv - cv) / cv on the raw overall rows, None when it cannot be computed
RawDelta(metric, test_all, control_all) ==
    LET cv == sf(Cell(control_all[1], RawCol(metric)))
        tv == sf(Cell(test_all[1], RawCol(metric)))
    IN  IF cv # Null /\ tv # Null /\ Val(cv) # 0
        THEN Some(((Val(tv) - Val(cv)) * 1000) \div Val(cv))
        ELSE Null

\* (variant: no fallback to the raw rows)
GuardrailEffectColumnOnly(metric, test_all, control_all) ==
    IF test_all # <<>> THEN sf(Cell(test_all[1], EffectCol(metric))) ELSE Null

\* (variant: the raw rows are preferred to the precomputed column)
GuardrailEffectRawFirst(metric, test_all, control_all) ==
    LET raw == IF control_all # <<>> /\ test_all # <<>>
               THEN RawDelta(metric, test_all, control_all)
               ELSE Null
    IN  IF raw = Null /\ test_all # <<>>
        THEN sf(Cell(test_all[1], EffectCol(metric)))
        ELSE raw

\* a guardrail's relative effect: the precomputed column, else the raw rows
GuardrailEffect(metric, test_all, control_all) ==
    LET eff == IF test_all # <<>>
               THEN sf(Cell(test_all[1], EffectCol(metric)))
               ELSE Null
    IN  IF eff = Null /\ control_all # <<>> /\ test_all # <<>>
        THEN RawDelta(metric, test_all, control_all)
        ELSE eff

\* (variant: a delta equal to the threshold is not a violation)
PolicyGuardViolatedStrict(delta_pct, threshold_pct) ==
    delta_pct # Null /\ Val(delta_pct) < threshold_pct

\* delta_pct is not None and delta_pct <= threshold_pct
PolicyGuardViolated(delta_pct, threshold_pct) ==
    delta_pct # Null /\ Val(delta_pct) <= threshold_pct

\* the loop over policy["guardrails"]
RECURSIVE PolicyGuardLoop(_, _, _, _)
PolicyGuardLoop(pgs, test_all, control_all, acc) ==
    IF pgs = <<>> THEN acc
    ELSE
      LET pg == Head(pgs)
          metric == pg.metric
          threshold_pct == GetOr(pg.threshold_pct, DefaultGuardThresholdPct)
          severity == GetOr(pg.severity, "hard")
          eff == GuardrailEffect(metric, test_all, control_all)
          delta_pct == IF eff # Null THEN Some(Val(eff) * 100) ELSE Null
          violated == PolicyGuardViolated(delta_pct, threshold_pct)
          acc2 == [ policy_guard_metrics |-> acc.policy_guard_metrics \cup {metric},
                    guardrail_deltas |-> Put(acc.guardrail_deltas, metric, delta_pct),
                    hard_violations |->
                        IF violated /\ severity = "hard"
                        THEN Append(acc.hard_violations, HardCode(metric))
                        ELSE acc.hard_violations,
                    soft_violations |->
                        IF violated /\ severity # "hard"
                        THEN Append(acc.soft_violations, SoftCode(metric))
                        ELSE acc.soft_violations ]
      IN PolicyGuardLoop(Tail(pgs), test_all, control_all, acc2)

\* (variant: an effect equal to the limit is a violation)
ContractGuardViolatedAtLimit(g, eff) ==
    LET direction == GetOr(g.direction, "up")
    IN  \/ /\ direction \in {"up", "neutral"}
           /\ g.max_drop_relative # Null
           /\ eff < 0
           /\ Abs(eff) >= Val(g.max_drop_relative)
        \/ /\ direction = "down"
           /\ g.max_rise_relative # Null
           /\ eff > 0
           /\ eff >= Val(g.max_rise_relative)

\* the directional rule for a contract guardrail
ContractGuardViolated(g, eff) ==
    LET direction == GetOr(g.direction, "up")
        max_drop == g.max_drop_relative
        max_rise == g.max_rise_relative
    IN  \/ /\ direction \in {"up", "neutral"}
           /\ max_drop # Null
           /\ eff < 0
           /\ Abs(eff) > Val(max_drop)
        \/ /\ direction = "down"
           /\ max_rise # Null
           /\ eff > 0
           /\ eff > Val(max_rise)

\* the loop over contract["guardrails"]
RECURSIVE ContractGuardLoop(_, _, _, _)
ContractGuardLoop(gs, test_all, control_all, acc) ==
    IF gs = <<>> THEN acc
    ELSE
      LET g == Head(gs)
          gname == g.name
          eff == GuardrailEffect(gname, test_all, control_all)
          acc2 == IF gname \in acc.policy_guard_metrics THEN acc
                  ELSE [ acc EXCEPT
                           !.guardrail_deltas =
                               Put(@, gname,
                                   IF eff # Null THEN Some(Val(eff) * 100) ELSE Null),
                           !.hard_violations =
                               IF eff # Null /\ ContractGuardViolated(g, Val(eff))
                               THEN Append(@, HardCode(gname))
                               ELSE @ ]
      IN ContractGuardLoop(Tail(gs), test_all, control_all, acc2)

\* a segment's significance inside the conflict test (line 163-164)
SegmentSignificant(p, alpha) == p < alpha

\* seg_uplifts: (seg, eff * 100, pv) of every declared segment with usable data
RECURSIVE SegUplifts(_, _, _)
SegUplifts(segments, rows, pm_name) ==
    IF segments = <<>> THEN <<>>
    ELSE
      LET seg == Head(segments)
          seg_test == SelectSeq(rows,
                          LAMBDA r : r.segment = seg /\ r.variant # "control")
          eff == IF seg_test # <<>> THEN sf(Cell(seg_test[1], EffectCol(pm_name)))
                 ELSE Null
          pv == IF seg_test # <<>> THEN sf(Cell(seg_test[1], PvalCol(pm_name)))
                ELSE Null
          rest == SegUplifts(Tail(segments), rows, pm_name)
      IN  IF seg_test # <<>> /\ eff # Null /\ pv # Null
          THEN << [seg |-> seg, u |-> Val(eff) * 100, p |-> Val(pv)] >> \o rest
          ELSE rest

SegmentsEnabled(policy) == GetOr(policy.seg_enabled, TRUE)

SegmentConflict(contract, rows, policy, pm_name, alpha) ==
    LET segments == contract.segments
    IN  IF Len(segments) >= 2 /\ SegmentsEnabled(policy)
        THEN
          LET min_gap == GetOr(policy.min_abs_pct_gap_for_conflict, DefaultMinGap)
              seg_uplifts == SegUplifts(segments, rows, pm_name)
          IN  IF Len(seg_uplifts) >= 2
              THEN
                LET vals == [i \in DOMAIN seg_uplifts |-> seg_uplifts[i].u]
                    gap == SeqMax(vals) - SeqMin(vals)
                    has_sig_pos == \E i \in DOMAIN seg_uplifts :
                        seg_uplifts[i].u > 0 /\ SegmentSignificant(seg_uplifts[i].p, alpha)
                    has_sig_neg == \E i \in DOMAIN seg_uplifts :
                        seg_uplifts[i].u < 0 /\ SegmentSignificant(seg_uplifts[i].p, alpha)
                IN  gap >= min_gap /\ has_sig_pos /\ has_sig_neg
              ELSE FALSE
        ELSE FALSE

\* (variant: the enabled flag of the policy is not consulted)
LongTermAlwaysEnabled(policy) == TRUE

\* policy.get("long_term", {}).get("enabled", True)
LongTermEnabled(policy) == GetOr(policy.lt_enabled, TRUE)

LongTermReversal(contract, policy) ==
    IF LongTermEnabled(policy)
    THEN LET notes == Lower(contract.notes)
         IN  \E k \in DOMAIN REVERSAL_KEYWORDS : Contains(notes, REVERSAL_KEYWORDS[k])
    ELSE FALSE

extract_signals(contract, rows, policy) ==
    LET pm_name == PrimaryMetricName(contract, policy)
        test_all == TestAll(rows)
        control_all == ControlAll(rows)
        effect_rel == IF test_all # <<>>
                      THEN sf(Cell(test_all[1], EffectCol(pm_name))) ELSE Null
        pval == IF test_all # <<>>
                THEN sf(Cell(test_all[1], PvalCol(pm_name))) ELSE Null
        uplift_pct == IF effect_rel # Null THEN Some(Val(effect_rel) * 100) ELSE Null
        alpha == CaseAlpha(contract, policy)
        acc0 == [ policy_guard_metrics |-> {}, guardrail_deltas |-> <<>>,
                  hard_violations |-> <<>>, soft_violations |-> <<>> ]
        acc1 == PolicyGuardLoop(policy.guardrails, test_all, control_all, acc0)
        acc2 == ContractGuardLoop(contract.guardrails, test_all, control_all, acc1)
        long_term_reversal == LongTermReversal(contract, policy)
    IN  [ primary_metric |-> pm_name,
          primary_uplift_pct |-> uplift_pct,
          effect_relative |-> effect_rel,
          p_value |-> pval,
          is_significant |-> IsSignificant(pval, alpha),
          alpha |-> alpha,
          guardrails |-> acc2.guardrail_deltas,
          guardrail_hard_violated |-> Len(acc2.hard_violations) > 0,
          guardrail_soft_violated |-> Len(acc2.soft_violations) > 0,
          hard_violations |-> acc2.hard_violations,
          soft_violations |-> acc2.soft_violations,
          segment_conflict |-> SegmentConflict(contract, rows, policy, pm_name, alpha),
          long_term_reversal |-> long_term_reversal,
          has_segment_data |-> Len(contract.segments) >= 2,
          has_long_term_data |-> long_term_reversal ]

----------------------------------------------------------------------------
(* Decision logic: _make_decision *)

\* (variant: the contract override replaces the policy value)
EffectivePracticalPctOverride(contract, policy) ==
    IF contract.practical_threshold_relative # Null
    THEN Val(contract.practical_threshold_relative) * 100
    ELSE GetOr(policy.practical_threshold_pct, DefaultPracticalPct)

\* (variant: the contract's threshold is not consulted)
EffectivePracticalPctPolicyOnly(contract, policy) ==
    GetOr(policy.practical_threshold_pct, DefaultPracticalPct)

\* practical_pct: max(contract, policy) when the contract overrides, else policy
EffectivePracticalPct(contract, policy) ==
    LET contract_practical_rel == contract.practical_threshold_relative
        policy_practical_pct == GetOr(policy.practical_threshold_pct, DefaultPracticalPct)
    IN  IF contract_practical_rel # Null
        THEN Max2(Val(contract_practical_rel) * 100, policy_practical_pct)
        ELSE policy_practical_pct

\* (variant: the comparison turned round)
AbovePracticalFlipped(uplift_pct, practical_pct) ==
    uplift_pct # Null /\ Abs(Val(uplift_pct)) <= practical_pct

\* above_practical = uplift_pct is not None and abs(uplift_pct) >= practical_pct
AbovePractical(uplift_pct, practical_pct) ==
    uplift_pct # Null /\ Abs(Val(uplift_pct)) >= practical_pct

Result(decision, reasons) == [decision |-> decision, reasons |-> reasons]

\* (variant: primary_uplift appended after the guardrail codes)
Step1Appended(signals, above_practical) ==
    Result("do_not_ship",
           IF signals.is_significant /\ above_practical
           THEN Append(signals.hard_violations, Code("primary_uplift"))
           ELSE signals.hard_violations)

\* (variant: the soft-violation codes are reported with the hard ones)
Step1WithSoft(signals, above_practical) ==
    Result("do_not_ship",
           IF signals.is_significant /\ above_practical
           THEN <<Code("primary_uplift")>> \o signals.hard_violations
                    \o signals.soft_violations
           ELSE signals.hard_violations \o signals.soft_violations)

\* Step 1: guardrails (hard stop)
Step1(signals, above_practical) ==
    Result("do_not_ship",
           IF signals.is_significant /\ above_practical
           THEN <<Code("primary_uplift")>> \o signals.hard_violations
           ELSE signals.hard_violations)

\* Step 2: long-term reversal
Step2(signals, policy) ==
    Result(GetOr(policy.reversal_action, "do_not_ship"),
           IF ~signals.is_significant
           THEN <<Code("long_term_reversal"), Code("not_significant")>>
           ELSE <<Code("long_term_reversal")>>)

\* Step 3: segment conflict
Step3(signals, policy) ==
    Result(GetOr(policy.conflict_action, "investigate"),
           IF ~signals.is_significant
           THEN <<Code("segment_conflict"), Code("not_significant")>>
           ELSE <<Code("segment_conflict")>>)

\* (variant: with require_significance_for_ship off, an uplift above the
\* threshold ships without significance)
StepsAfterFlagsShipUnsignificant(signals, policy, above_practical) ==
    IF signals.is_significant /\ ~above_practical
    THEN Result("do_not_ship", <<Code("practically_small")>>)
    ELSE IF GetOr(policy.require_significance_for_ship, TRUE) /\ ~signals.is_significant
    THEN IF GetOr(policy.allow_investigate_if_not_significant, TRUE)
         THEN Result("investigate", <<Code("not_significant")>>)
         ELSE Result("do_not_ship", <<Code("not_significant")>>)
    ELSE IF above_practical
    THEN Result("ship", <<Code("primary_uplift")>>)
    ELSE Result("investigate", <<Code("insufficient_evidence")>>)

\* (variant: a soft guardrail violation holds a ship back for investigation)
StepsAfterFlagsSoftHolds(signals, policy, above_practical) ==
    IF signals.is_significant /\ ~above_practical
    THEN Result("do_not_ship", <<Code("practically_small")>>)
    ELSE IF GetOr(policy.require_significance_for_ship, TRUE) /\ ~signals.is_significant
    THEN IF GetOr(policy.allow_investigate_if_not_significant, TRUE)
         THEN Result("investigate", <<Code("not_significant")>>)
         ELSE Result("do_not_ship", <<Code("not_significant")>>)
    ELSE IF signals.is_significant /\ above_practical /\ ~signals.guardrail_soft_violated
    THEN Result("ship", <<Code("primary_uplift")>>)
    ELSE IF signals.guardrail_soft_violated
    THEN Result("investigate", signals.soft_violations)
    ELSE Result("investigate", <<Code("insufficient_evidence")>>)

\* Steps 4 to 6 and the fall-through
StepsAfterFlags(signals, policy, above_practical) ==
    IF signals.is_significant /\ ~above_practical
    THEN Result("do_not_ship", <<Code("practically_small")>>)
    ELSE IF GetOr(policy.require_significance_for_ship, TRUE) /\ ~signals.is_significant
    THEN IF GetOr(policy.allow_investigate_if_not_significant, TRUE)
         THEN Result("investigate", <<Code("not_significant")>>)
         ELSE Result("do_not_ship", <<Code("not_significant")>>)
    ELSE IF signals.is_significant /\ above_practical
    THEN Result("ship", <<Code("primary_uplift")>>)
    ELSE Result("investigate", <<Code("insufficient_evidence")>>)

\* the locals practical_pct and above_practical of _make_decision
decision_locals(signals, contract, policy) ==
    LET practical_pct == EffectivePracticalPct(contract, policy)
    IN  [ practical_pct |-> practical_pct,
          above_practical |-> AbovePractical(signals.primary_uplift_pct, practical_pct) ]

\* (variant: the segment step tested before the long-term step)
make_decision_reordered(signals, contract, policy) ==
    LET above_practical == AbovePractical(signals.primary_uplift_pct,
                                          EffectivePracticalPct(contract, policy))
    IN  IF signals.guardrail_hard_violated THEN Step1(signals, above_practical)
        ELSE IF signals.segment_conflict THEN Step3(signals, policy)
        ELSE IF signals.long_term_reversal THEN Step2(signals, policy)
        ELSE StepsAfterFlags(signals, policy, above_practical)

make_decision(signals, contract, policy) ==
    LET above_practical == decision_locals(signals, contract, policy).above_practical
    IN  IF signals.guardrail_hard_violated THEN Step1(signals, above_practical)
        ELSE IF signals.long_term_reversal THEN Step2(signals, policy)
        ELSE IF signals.segment_conflict THEN Step3(signals, policy)
        ELSE StepsAfterFlags(signals, policy, above_practical)

----------------------------------------------------------------------------
(* Confidence scoring: _sigmoid and _compute_confidence *)

\* math.exp(y) raises OverflowError for y above ln(DBL_MAX) = 709.782...
ExpMaxArg == 709782

ExpOverflows(y) == y > ExpMaxArg

\* 1 / (1 + exp(-x)) in units of 0.000001, x = k/2 for k in -20..20
LogisticTable ==
    [k \in -20..20 |->
        CASE k = -20 -> 45      [] k = -19 -> 75      [] k = -18 -> 123
          [] k = -17 -> 203     [] k = -16 -> 335     [] k = -15 -> 553
          [] k = -14 -> 911     [] k = -13 -> 1501    [] k = -12 -> 2473
          [] k = -11 -> 4070    [] k = -10 -> 6693    [] k = -9 -> 10987
          [] k = -8 -> 17986    [] k = -7 -> 29312    [] k = -6 -> 47426
          [] k = -5 -> 75858    [] k = -4 -> 119203   [] k = -3 -> 182426
          [] k = -2 -> 268941   [] k = -1 -> 377541   [] k = 0 -> 500000
          [] OTHER -> 0]

\* the float 1.0 / (1.0 + math.exp(-x)), in units of 0.000001, read at the
\* half-integer grid point at or below x; beyond +-10 it is within 0.00005
\* of 1.0 or 0.0
Logistic(x) ==
    LET k == x \div 500
    IN  IF k < -20 THEN 0
        ELSE IF k > 20 THEN 1000000
        ELSE IF k <= 0 THEN LogisticTable[k]
        ELSE 1000000 - LogisticTable[-k]

\* (variant: the OverflowError of math.exp is not caught)
sigmoid_uncaught(x) ==
    IF ExpOverflows(-x)
    THEN [raised |-> TRUE, value |-> 0]
    ELSE [raised |-> FALSE, value |-> Logistic(x)]

\* _sigmoid: the OverflowError of math.exp is caught and clamped
sigmoid(x) ==
    IF ExpOverflows(-x)
    THEN [raised |-> FALSE, value |-> IF x < 0 THEN 0 ELSE 1000000]
    ELSE [raised |-> FALSE, value |-> Logistic(x)]

\* round(raw, 4): units of 0.000001 to units of 0.0001, ties to even
Round4(raw) ==
    LET q == raw \div 100
        r == raw % 100
    IN  IF r > 50 THEN q + 1
        ELSE IF r < 50 THEN q
        ELSE IF q % 2 = 0 THEN q ELSE q + 1

ConfidenceFloor == 100

ConfidenceCeil == 9900

\* (variant: the rounded value is reported unclamped)
Unclamped(r) == r

\* max(0.01, min(0.99, round(raw, 4)))
Clamp(r) == Max2(ConfidenceFloor, Min2(ConfidenceCeil, r))

\* round(score, 4) of the score score/1000 + frac/100000, in units of 0.0001;
\* frac is the part of the float below the model's unit of 0.001
ScoreRound4(score, frac) ==
    LET v == score * 100 + frac
        q == v \div 10
        r == v % 10
    IN  IF r > 5 THEN q + 1
        ELSE IF r < 5 THEN q
        ELSE IF q % 2 = 0 THEN q ELSE q + 1

\* (variant: a factor without a weight in the policy counts 1.0)
WeightOfDefaultOne(policy, name) ==
    IF name \in DOMAIN policy.weights THEN policy.weights[name] ELSE 1000

\* weights.get(name, 0.0)
WeightOf(policy, name) ==
    IF name \in DOMAIN policy.weights THEN policy.weights[name] ELSE DefaultWeight

\* uplift is not None and abs(uplift) >= policy_practical
UpliftStrong(uplift, policy_practical) ==
    uplift # Null /\ Abs(Val(uplift)) >= policy_practical

\* (variant: small is the else branch of strong)
UpliftSmallOtherwise(uplift, policy_practical) ==
    ~(uplift # Null /\ Abs(Val(uplift)) >= policy_practical)

\* uplift is not None and abs(uplift) < policy_practical
UpliftSmall(uplift, policy_practical) ==
    uplift # Null /\ Abs(Val(uplift)) < policy_practical

\* pval is None or pval > alpha, alpha being the policy's
ScorerNotSignificant(pval, alpha) == pval = Null \/ Val(pval) > alpha

\* the condition under which each factor is added
FactorFires(name, signals, policy, missing) ==
    LET uplift == signals.primary_uplift_pct
        policy_practical == GetOr(policy.practical_threshold_pct, DefaultPracticalPct)
        alpha == GetOr(policy.alpha, DefaultAlpha)
        pval == signals.p_value
    IN  CASE name = "primary_uplift_strong" -> UpliftStrong(uplift, policy_practical)
          [] name = "primary_uplift_small" -> UpliftSmall(uplift, policy_practical)
          [] name = "not_significant" -> ScorerNotSignificant(pval, alpha)
          [] name = "guardrail_hard_violation" -> signals.guardrail_hard_violated
          [] name = "guardrail_soft_violation" -> signals.guardrail_soft_violated
          [] name = "segment_conflict" -> signals.segment_conflict
          [] name = "long_term_reversal" -> signals.long_term_reversal
          [] name = "evidence_sparse" -> missing # <<>>

\* the factor names in the order the code tests them
FactorOrder ==
    << "primary_uplift_strong", "primary_uplift_small", "not_significant",
       "guardrail_hard_violation", "guardrail_soft_violation", "segment_conflict",
       "long_term_reversal", "evidence_sparse" >>

\* signals.get("guardrails", {}).get(metric) is None
GuardrailDeltaMissing(signals, metric) ==
    metric \notin DOMAIN signals.guardrails \/ signals.guardrails[metric] = Null

RECURSIVE MissingGuardrails(_, _)
MissingGuardrails(pgs, signals) ==
    IF pgs = <<>> THEN <<>>
    ELSE (IF GuardrailDeltaMissing(signals, Head(pgs).metric)
          THEN <<MissingGuardrail(Head(pgs).metric)>> ELSE <<>>)
         \o MissingGuardrails(Tail(pgs), signals)

\* (variant: long-term evidence is reported missing whenever the check is
\* enabled, whatever was observed)
MissingEvidenceLongTermAlways(signals, policy) ==
    (IF signals.primary_uplift_pct = Null THEN <<Code("primary_uplift_pct")>> ELSE <<>>)
    \o (IF signals.p_value = Null THEN <<Code("p_value")>> ELSE <<>>)
    \o MissingGuardrails(policy.guardrails, signals)
    \o (IF GetOr(policy.seg_enabled, FALSE) /\ ~signals.has_segment_data
        THEN <<Code("segments")>> ELSE <<>>)
    \o (IF GetOr(policy.lt_enabled, FALSE) THEN <<Code("long_term")>> ELSE <<>>)

\* the missing-evidence list; .get("enabled") has no default here, so an
\* absent flag is falsy
MissingEvidence(signals, policy) ==
    (IF signals.primary_uplift_pct = Null THEN <<Code("primary_uplift_pct")>> ELSE <<>>)
    \o (IF signals.p_value = Null THEN <<Code("p_value")>> ELSE <<>>)
    \o MissingGuardrails(policy.guardrails, signals)
    \o (IF GetOr(policy.seg_enabled, FALSE) /\ ~signals.has_segment_data
        THEN <<Code("segments")>> ELSE <<>>)
    \o (IF GetOr(policy.lt_enabled, FALSE) /\ ~signals.has_long_term_data
        THEN <<Code("long_term")>> ELSE <<>>)

RECURSIVE Factors(_, _, _, _)
Factors(names, signals, policy, missing) ==
    IF names = <<>> THEN <<>>
    ELSE (IF FactorFires(Head(names), signals, policy, missing)
          THEN << [name |-> Head(names), weight |-> WeightOf(policy, Head(names))] >>
          ELSE <<>>)
         \o Factors(Tail(names), signals, policy, missing)

RECURSIVE SumWeights(_)
SumWeights(factors) ==
    IF factors = <<>> THEN 0 ELSE Head(factors).weight + SumWeights(Tail(factors))

\* score is the local `score` in units of 0.001 (what _sigmoid is given, read
\* on its grid), score_round4 the "score" entry of the explanation in units
\* of 0.0001
compute_confidence(signals, policy) ==
    LET base == GetOr(policy.base, DefaultBase)
        base_frac == IF policy.base # Null THEN policy.base_frac ELSE 0
        missing == MissingEvidence(signals, policy)
        factors == Factors(FactorOrder, signals, policy, missing)
        score == base + SumWeights(factors)
        raw == sigmoid(score)
    IN  [ raised |-> raw.raised,
          confidence |-> Clamp(Round4(raw.value)),
          score |-> score,
          score_round4 |-> ScoreRound4(score, base_frac),
          factors |-> factors,
          missing_evidence |-> missing ]

----------------------------------------------------------------------------
(* State: one evaluation by decision_agent.run, step by step.              *)
(*   pc        position in run: "loaded" (policy, contract and rows read), *)
(*             "extracted", "decided", "scored", "done" (result returned)  *)
(*   policy, contract, rows   the inputs read at lines 341-353             *)
(*   signals, dlocals, decision, conf   the values computed at 355-357;    *)
(*             Null until first computed, then whatever the last           *)
(*             evaluation left there                                       *)
(*   runs      the results returned so far, oldest first                   *)
(*   change    how the inputs of this evaluation came about: "fresh", or   *)
(*             the previous inputs with one thing changed                  *)
(*   truth     expected_decision of the case's truth.json, when it was     *)
(*             read                                                        *)
(*   fs        the runs directory: its run directories and index.jsonl     *)
(*   wf        the orchestrating process (run_case.py, selfcheck.py)       *)

VARIABLES pc, policy, contract, rows, signals, dlocals, decision, conf, runs, change,
          truth, fs, wf

vars == <<pc, policy, contract, rows, signals, dlocals, decision, conf, runs, change,
          truth, fs, wf>>

inputs == <<policy, contract, rows>>

\* what the decision engine never touches: the case's truth file, the runs
\* directory and the orchestrating process
workflow == <<truth, fs, wf>>

\* a runs directory that does not exist yet: no run directory (dirs), no
\* traces.jsonl or final_report.md in any of them, no index.jsonl
NoRunsDir == [dirs |-> {}, traces |-> <<>>, reports |-> <<>>, index |-> Null]

\* no orchestrating process
Idle == [pc |-> "idle"]

\* (variant: the violation list outlives the call, as a module-level or
\* default-argument list would)
ExtractIntoSharedList ==
    /\ pc = "loaded"
    /\ signals' =
         LET fresh == extract_signals(contract, rows, policy)
             kept == IF runs = <<>> THEN <<>> ELSE signals.hard_violations
         IN  [ fresh EXCEPT !.hard_violations = kept \o @,
                            !.guardrail_hard_violated = Len(kept \o fresh.hard_violations) > 0 ]
    /\ pc' = "extracted"
    /\ UNCHANGED <<inputs, dlocals, decision, conf, runs, change, workflow>>

\* signals = _extract_signals(contract, rows, policy)
Extract ==
    /\ pc = "loaded"
    /\ signals' = extract_signals(contract, rows, policy)
    /\ pc' = "extracted"
    /\ UNCHANGED <<inputs, dlocals, decision, conf, runs, change, workflow>>

\* (variant: step 1 inserts into signals["hard_violations"] itself instead
\* of a copy of it)
DecideOnSharedList ==
    /\ pc = "extracted"
    /\ dlocals' = decision_locals(signals, contract, policy)
    /\ decision' = make_decision(signals, contract, policy)
    /\ signals' = IF signals.guardrail_hard_violated
                  THEN [ signals EXCEPT !.hard_violations =
                             make_decision(signals, contract, policy).reasons ]
                  ELSE signals
    /\ pc' = "decided"
    /\ UNCHANGED <<inputs, conf, runs, change, workflow>>

\* decision, reasons = _make_decision(signals, contract, policy)
Decide ==
    /\ pc = "extracted"
    /\ dlocals' = decision_locals(signals, contract, policy)
    /\ decision' = make_decision(signals, contract, policy)
    /\ pc' = "decided"
    /\ UNCHANGED <<inputs, signals, conf, runs, change, workflow>>

\* confidence, conf_explain = _compute_confidence(signals, policy)
Score ==
    /\ pc = "decided"
    /\ conf' = compute_confidence(signals, policy)
    /\ pc' = "scored"
    /\ UNCHANGED <<inputs, signals, dlocals, decision, runs, change, workflow>>

\* result = {...}; return result
Finish ==
    /\ pc = "scored"
    /\ runs' = Append(runs, [ policy |-> policy, contract |-> contract, rows |-> rows,
                              decision |-> decision.decision,
                              reasons |-> decision.reasons,
                              confidence |-> conf.confidence,
                              signals |-> signals,
                              confidence_explain |-> conf ])
    /\ pc' = "done"
    /\ UNCHANGED <<inputs, signals, dlocals, decision, conf, change, workflow>>

\* the state when run has read its inputs for the first time
Start(policies, contracts, rowsets) ==
    /\ pc = "loaded"
    /\ policy \in policies
    /\ contract \in contracts
    /\ rows \in rowsets
    /\ signals = Null
    /\ dlocals = Null
    /\ decision = Null
    /\ conf = Null
    /\ runs = <<>>
    /\ change = [kind |-> "fresh", metric |-> ""]
    /\ truth = Null
    /\ fs = NoRunsDir
    /\ wf = Idle

----------------------------------------------------------------------------
(* Inputs *)

PlainNotes == <<"C","l","e","a","n"," ","u","p","l","i","f","t">>

ReversalNotes == <<"T","r","e","n","d"," ","R","e","v","e","r","s","a","l">>

CtrGuard(severity) ==
    [metric |-> "ctr", threshold_pct |-> Some(-3000), severity |-> severity]

FillrateGuard ==
    [ name |-> "fillrate", direction |-> Some("up"),
      max_drop_relative |-> Some(20), max_rise_relative |-> Null ]

Weights ==
    [ primary_uplift_strong |-> 2000, primary_uplift_small |-> -500,
      not_significant |-> -1000, guardrail_hard_violation |-> 1500,
      guardrail_soft_violation |-> -500, segment_conflict |-> -1000,
      long_term_reversal |-> 1000, evidence_sparse |-> -500 ]

BasePolicy ==
    [ pm_name |-> Some("revenue"), practical_threshold_pct |-> Null, alpha |-> Null,
      require_significance_for_ship |-> Null,
      allow_investigate_if_not_significant |-> Null,
      guardrails |-> <<CtrGuard(Some("hard"))>>,
      seg_enabled |-> Some(TRUE), min_abs_pct_gap_for_conflict |-> Null,
      conflict_action |-> Null,
      lt_enabled |-> Some(TRUE), reversal_action |-> Null,
      base |-> Some(500), base_frac |-> 0, weights |-> Weights ]

BaseContract ==
    [ pm_name |-> Some("revenue"), alpha |-> Some(50),
      practical_threshold_relative |-> Null,
      guardrails |-> <<FillrateGuard>>,
      segments |-> <<"new", "returning">>,
      notes |-> PlainNotes ]

\* an overall row; the raw metric values are control 1000.0 / test 1032.0
OverallRow(variant, cols) == [segment |-> "all", variant |-> variant, cols |-> cols]

TestCols(pe, pp, ge, fe) ==
    (EffectCol("revenue") :> pe) @@ (PvalCol("revenue") :> pp)
    @@ (EffectCol("ctr") :> ge) @@ (EffectCol("fillrate") :> fe)
    @@ (RawCol("revenue") :> Num(1032000))

ControlCols == (RawCol("revenue") :> Num(1000000))

SegRow(seg, variant, e, p) ==
    [ segment |-> seg, variant |-> variant,
      cols |-> (EffectCol("revenue") :> e) @@ (PvalCol("revenue") :> p) ]

\* the per-segment rows of a table: none, two segments that disagree under
\* significance, two segments that are far apart but both positive
SegRows(kind) ==
    CASE kind = "none" -> <<>>
      [] kind = "conflict" ->
           << SegRow("new", "control", Empty, Empty),
              SegRow("new", "test", Num(30), Num(10)),
              SegRow("returning", "control", Empty, Empty),
              SegRow("returning", "test", Num(-25), Num(20)) >>
      [] kind = "agree" ->
           << SegRow("new", "control", Empty, Empty),
              SegRow("new", "test", Num(30), Num(10)),
              SegRow("returning", "control", Empty, Empty),
              SegRow("returning", "test", Num(5), Num(20)) >>

Table(pe, pp, ge, fe, segkind) ==
    << OverallRow("control", ControlCols), OverallRow("test", TestCols(pe, pp, ge, fe)) >>
    \o SegRows(segkind)

\* a table whose overall test row is absent
ControlOnlyTable == << OverallRow("control", ControlCols) >>

----------------------------------------------------------------------------
(* SpecDecide: the decision chain over every combination of the signals    *)
(* it reads, and re-evaluation of a case under a raised policy threshold.  *)

MaxThresholdSteps == 1

\* policy practical_threshold_pct: absent (0.5), 1.0, 2.0, ...
PolicyThresholds == {Null} \cup {Some(1000 * k) : k \in 1..MaxThresholdSteps}

DecidePolicies ==
    { [ BasePolicy EXCEPT
          !.practical_threshold_pct = th,
          !.require_significance_for_ship = rs,
          !.allow_investigate_if_not_significant = ai,
          !.reversal_action = acts[1],
          !.conflict_action = acts[2] ] :
      th \in PolicyThresholds,
      rs \in {Null, Some(FALSE)},
      ai \in {Null, Some(FALSE)},
      acts \in { <<Null, Null>>, <<Some("investigate"), Some("do_not_ship")>>,
                 <<Some("ship"), Some("ship")>> } }

DecideContracts ==
    { [ BaseContract EXCEPT !.practical_threshold_relative = pr, !.notes = nt ] :
      pr \in {Null, Some(2), Some(20)},
      nt \in {PlainNotes, ReversalNotes} }

DecideTables ==
    { Table(pe, pp, ge, fe, sk) :
        pe \in {Empty, Num(3), Num(5), Num(8), Num(-32)},
        pp \in {Empty, Num(10), Num(50), Num(200)},
        ge \in {Empty, Num(-40), Num(-10)},
        fe \in {Num(-30), Num(-5)},
        sk \in {"none", "conflict", "agree"} }
    \cup {ControlOnlyTable}

InitDecide == Start(DecidePolicies, DecideContracts, DecideTables)

\* the same case evaluated again under a policy whose practical threshold
\* is raised, everything else held fixed
RaiseThreshold ==
    /\ pc = "done"
    /\ change.kind = "fresh"
    /\ \E th \in PolicyThresholds :
         /\ th # Null
         /\ Val(th) > GetOr(policy.practical_threshold_pct, DefaultPracticalPct)
         /\ policy' = [policy EXCEPT !.practical_threshold_pct = th]
    /\ change' = [kind |-> "raise", metric |-> ""]
    /\ pc' = "loaded"
    /\ UNCHANGED <<contract, rows, signals, dlocals, decision, conf, runs, workflow>>

NextDecide == Extract \/ Decide \/ Score \/ Finish \/ RaiseThreshold

SpecDecide == InitDecide /\ [][NextDecide]_vars

----------------------------------------------------------------------------
(* Properties of the decision chain *)

Decided == pc \in {"decided", "scored", "done"}

PolicyPracticalPct == GetOr(policy.practical_threshold_pct, DefaultPracticalPct)

RequireSignificance == GetOr(policy.require_significance_for_ship, TRUE)

\* the six rows of the priority table, in order; "below the practical
\* threshold" of row 4 is read as "not at or above it"
PriorityTable ==
    << [ when |-> signals.guardrail_hard_violated,
         decision |-> "do_not_ship",
         reasons |-> IF signals.is_significant /\ dlocals.above_practical
                     THEN <<Code("primary_uplift")>> \o signals.hard_violations
                     ELSE signals.hard_violations ],
       [ when |-> signals.long_term_reversal,
         decision |-> GetOr(policy.reversal_action, "do_not_ship"),
         reasons |-> <<Code("long_term_reversal")>>
                     \o IF signals.is_significant THEN <<>> ELSE <<Code("not_significant")>> ],
       [ when |-> signals.segment_conflict,
         decision |-> GetOr(policy.conflict_action, "investigate"),
         reasons |-> <<Code("segment_conflict")>>
                     \o IF signals.is_significant THEN <<>> ELSE <<Code("not_significant")>> ],
       [ when |-> signals.is_significant /\ ~dlocals.above_practical,
         decision |-> "do_not_ship",
         reasons |-> <<Code("practically_small")>> ],
       [ when |-> ~signals.is_significant /\ RequireSignificance,
         decision |-> IF GetOr(policy.allow_investigate_if_not_significant, TRUE)
                      THEN "investigate" ELSE "do_not_ship",
         reasons |-> <<Code("not_significant")>> ],
       [ when |-> signals.is_significant /\ dlocals.above_practical,
         decision |-> "ship",
         reasons |-> <<Code("primary_uplift")>> ] >>

MatchingRows == {i \in DOMAIN PriorityTable : PriorityTable[i].when}

FirstMatchingRow == CHOOSE i \in MatchingRows : \A j \in MatchingRows : i <= j

InsufficientEvidence == Result("investigate", <<Code("insufficient_evidence")>>)

\* C1: the decision and reasons are those of the first matching row of the
\* six-row priority table (hard guardrail, long-term reversal, segment
\* conflict, practically small, not significant, ship), whatever later rows
\* match as well, and investigate/[insufficient_evidence] is returned only
\* when no row matches.
C1_FirstMatchingRowDecides ==
    Decided =>
      /\ MatchingRows # {} =>
           decision = Result(PriorityTable[FirstMatchingRow].decision,
                             PriorityTable[FirstMatchingRow].reasons)
      /\ MatchingRows = {} => decision = InsufficientEvidence
      /\ decision = InsufficientEvidence => MatchingRows = {}

\* a long-term reversal and a segment conflict are both flagged, their
\* actions differ, and the reversal row decided
C1_Witness ==
    /\ pc = "decided"
    /\ ~signals.guardrail_hard_violated
    /\ signals.long_term_reversal /\ signals.segment_conflict
    /\ PriorityTable[2].decision # PriorityTable[3].decision
    /\ decision.reasons[1] = Code("long_term_reversal")
    /\ {2, 3, 6} \subseteq MatchingRows

\* C2: with at least one hard guardrail violated the decision is
\* do_not_ship whatever the other signals and the policy say, and the
\* reasons are the hard-violation codes in extraction order, preceded by
\* primary_uplift exactly when the primary effect is significant and at or
\* above the effective practical threshold.
C2_HardGuardrailDominates ==
    (Decided /\ Len(signals.hard_violations) > 0) =>
      /\ decision.decision = "do_not_ship"
      /\ decision.reasons =
           (IF /\ signals.is_significant
               /\ signals.primary_uplift_pct # Null
               /\ Abs(Val(signals.primary_uplift_pct)) >= dlocals.practical_pct
            THEN <<Code("primary_uplift")>> ELSE <<>>)
           \o signals.hard_violations

\* two hard violations together with a significant large uplift, a
\* reversal note and a segment conflict
C2_Witness ==
    /\ pc = "decided"
    /\ signals.hard_violations = <<HardCode("ctr"), HardCode("fillrate")>>
    /\ signals.long_term_reversal /\ signals.segment_conflict
    /\ decision.reasons =
         <<Code("primary_uplift"), HardCode("ctr"), HardCode("fillrate")>>

\* C3: re-evaluating a case under a raised policy practical_threshold_pct,
\* contract and data and the rest of the policy unchanged, never turns
\* do_not_ship or investigate into ship; a verdict that changes was ship.
C3_RaisingThresholdNeverShips ==
    (pc = "done" /\ change.kind = "raise") =>
      LET before == runs[Len(runs) - 1]
          after == runs[Len(runs)]
      IN  /\ before.decision # "ship" => after.decision # "ship"
          /\ after.decision # before.decision => before.decision = "ship"

\* a case shipped under the lower threshold and not under the raised one
C3_Witness ==
    /\ pc = "done" /\ change.kind = "raise"
    /\ runs[Len(runs) - 1].decision = "ship"
    /\ runs[Len(runs)].decision = "do_not_ship"
    /\ runs[Len(runs)].contract = runs[Len(runs) - 1].contract
    /\ runs[Len(runs)].rows = runs[Len(runs) - 1].rows

\* C4: the effective practical threshold is max(contract
\* practical_threshold_relative * 100, policy practical_threshold_pct) when
\* the contract gives an override and the policy value otherwise, hence
\* never below the policy value; "above practical" holds exactly when the
\* uplift is non-null and abs(uplift_pct) >= that threshold.
C4_EffectiveThreshold ==
    Decided =>
      LET override == contract.practical_threshold_relative
          expected == IF override = Null THEN PolicyPracticalPct
                      ELSE IF Val(override) * 100 > PolicyPracticalPct
                      THEN Val(override) * 100
                      ELSE PolicyPracticalPct
      IN  /\ dlocals.practical_pct = expected
          /\ dlocals.practical_pct >= PolicyPracticalPct
          /\ dlocals.above_practical <=>
               /\ signals.primary_uplift_pct # Null
               /\ Abs(Val(signals.primary_uplift_pct)) >= expected

\* a contract override below the policy value: the policy value is used and
\* an uplift between the two is not above the threshold
C4_Witness ==
    /\ pc = "decided"
    /\ contract.practical_threshold_relative # Null
    /\ Val(contract.practical_threshold_relative) * 100 < PolicyPracticalPct
    /\ signals.primary_uplift_pct # Null
    /\ Abs(Val(signals.primary_uplift_pct)) > Val(contract.practical_threshold_relative) * 100
    /\ ~dlocals.above_practical
    /\ dlocals.practical_pct = PolicyPracticalPct

\* C8: a null primary uplift is missing evidence, not a small effect:
\* whenever primary_uplift_pct is null, p-value <= alpha or not, the
\* decision is not do_not_ship with reasons [practically_small].
C8_NullUpliftNotPracticallySmall ==
    (Decided /\ signals.primary_uplift_pct = Null) =>
      decision # Result("do_not_ship", <<Code("practically_small")>>)

----------------------------------------------------------------------------
(* SpecConfidence: the confidence scorer under policies whose base and     *)
(* weights range from ordinary to far beyond what math.exp can take.       *)

MaxBaseSteps == 3

\* base in steps of 250.0 around zero, and a few ordinary values
ConfidenceBases ==
    {Null, Some(500), Some(-3500), Some(4500)}
    \cup {Some(250000 * k) : k \in -MaxBaseSteps..MaxBaseSteps}

NoWeights == <<>>

HeavyWeights ==
    [ primary_uplift_strong |-> 800000, primary_uplift_small |-> -800000,
      not_significant |-> -800000, guardrail_hard_violation |-> -800000,
      evidence_sparse |-> 500 ]

\* the part of base below 0.001, in units of 0.00001: none, 0.00004, 0.00016
BaseFractions == {0, 4, 16}

ConfidencePolicies ==
    { [ BasePolicy EXCEPT !.base = b, !.base_frac = bf, !.weights = w,
                          !.guardrails = <<CtrGuard(sev)>> ] :
      b \in ConfidenceBases,
      bf \in BaseFractions,
      w \in {Weights, NoWeights, HeavyWeights},
      sev \in {Some("hard"), Some("soft")} }

ConfidenceContracts ==
    { [ BaseContract EXCEPT !.notes = nt ] : nt \in {PlainNotes, ReversalNotes} }

ConfidenceTables ==
    { Table(pe, pp, ge, Num(-5), sk) :
        pe \in {Empty, Num(3), Num(-32)},
        pp \in {Empty, Num(10), Num(200)},
        ge \in {Empty, Num(-40)},
        sk \in {"none", "conflict"} }
    \cup {ControlOnlyTable}

InitConfidence == Start(ConfidencePolicies, ConfidenceContracts, ConfidenceTables)

NextConfidence == Extract \/ Decide \/ Score \/ Finish

SpecConfidence == InitConfidence /\ [][NextConfidence]_vars

Scored == pc \in {"scored", "done"}

\* C5: for every signal set and policy, scores beyond the range of math.exp
\* included, _compute_confidence returns without raising and its confidence
\* c satisfies 0.01 <= c <= 0.99.
C5_ConfidenceBounds ==
    Scored =>
      /\ ~conf.raised
      /\ ConfidenceFloor <= conf.confidence
      /\ conf.confidence <= ConfidenceCeil

\* a score so negative that math.exp(-score) overflows, reported as 0.01
C5_Witness ==
    /\ pc = "scored"
    /\ ExpOverflows(-conf.score)
    /\ conf.confidence = ConfidenceFloor

----------------------------------------------------------------------------
(* SpecSegments: the segment-conflict test over tables whose per-segment   *)
(* rows vary in presence, effect and p-value.                              *)

MaxSegments == 2

SegmentPool == <<"new", "returning", "vip", "churned">>

\* the first n names of the pool
SegmentNames(n) == SubSeq(SegmentPool, 1, n)

\* what a table may hold for one segment: nothing, or a control and a test
\* row whose effect is absent, +3.0%, -2.5% or -0.5% and whose p-value is
\* 0.02 or 0.05, or a test row without p-value
SegmentOptions(seg) ==
    { <<>> }
    \cup { << SegRow(seg, "control", Empty, Empty), SegRow(seg, "test", e, p) >> :
             e \in {Empty, Num(30), Num(-25), Num(-5)}, p \in {Num(20), Num(50)} }
    \cup { << SegRow(seg, "control", Empty, Empty), SegRow(seg, "test", Num(30), Empty) >> }

RECURSIVE SegmentRowSets(_)
SegmentRowSets(names) ==
    IF names = <<>> THEN { <<>> }
    ELSE { h \o t : h \in SegmentOptions(Head(names)), t \in SegmentRowSets(Tail(names)) }

\* overall effect +0.2%, not significant
SegmentTables ==
    { << OverallRow("control", ControlCols),
         OverallRow("test", TestCols(Num(2), Num(200), Num(-10), Num(-5))) >> \o segrows :
      segrows \in SegmentRowSets(SegmentNames(MaxSegments)) }

SegmentContracts ==
    { [ BaseContract EXCEPT !.segments = SegmentNames(n) ] : n \in 1..MaxSegments }

SegmentPolicies ==
    { [ BasePolicy EXCEPT !.seg_enabled = en, !.min_abs_pct_gap_for_conflict = gap ] :
      en \in {Null, Some(FALSE)},
      gap \in {Null, Some(5000), Some(6000)} }

InitSegments == Start(SegmentPolicies, SegmentContracts, SegmentTables)

NextSegments == Extract \/ Decide \/ Score \/ Finish

SpecSegments == InitSegments /\ [][NextSegments]_vars

Extracted == pc \in {"extracted", "decided", "scored", "done"}

\* the first non-control row of a segment, as a set (empty when none)
FirstTestRow(seg) ==
    LET idx == {i \in DOMAIN rows : rows[i].segment = seg /\ rows[i].variant # "control"}
    IN  IF idx = {} THEN {}
        ELSE {rows[CHOOSE i \in idx : \A j \in idx : i <= j]}

\* declared segments with a usable (effect, p-value) pair for the primary metric
UsableSegments ==
    { seg \in {contract.segments[i] : i \in DOMAIN contract.segments} :
        \E r \in FirstTestRow(seg) :
            /\ Cell(r, EffectCol(signals.primary_metric)).t = "num"
            /\ Cell(r, PvalCol(signals.primary_metric)).t = "num" }

SegEffectPct(seg) ==
    (CHOOSE r \in FirstTestRow(seg) : TRUE).cols[EffectCol(signals.primary_metric)].v * 100

SegPval(seg) ==
    (CHOOSE r \in FirstTestRow(seg) : TRUE).cols[PvalCol(signals.primary_metric)].v

\* C10: the segment-conflict flag is true iff the contract declares at
\* least two segments, policy segment checking is enabled, at least two
\* declared segments have a usable (effect, p-value) pair, the largest minus
\* the smallest per-segment effect in percentage points is at least
\* min_abs_pct_gap_for_conflict, and some segment has a positive and some a
\* negative effect that are significant by the primary metric's test
\* (p_value <= alpha); an all-positive spread is never a conflict.
C10_SegmentConflictIff ==
    Extracted =>
      /\ signals.segment_conflict <=>
           /\ Len(contract.segments) >= 2
           /\ GetOr(policy.seg_enabled, TRUE)
           /\ Cardinality(UsableSegments) >= 2
           /\ \E hi \in UsableSegments : \E lo \in UsableSegments :
                SegEffectPct(hi) - SegEffectPct(lo)
                  >= GetOr(policy.min_abs_pct_gap_for_conflict, DefaultMinGap)
           /\ \E seg \in UsableSegments :
                SegEffectPct(seg) > 0 /\ SegPval(seg) <= signals.alpha
           /\ \E seg \in UsableSegments :
                SegEffectPct(seg) < 0 /\ SegPval(seg) <= signals.alpha
      /\ (\A seg \in UsableSegments : SegEffectPct(seg) > 0) => ~signals.segment_conflict

\* (for comparison: the same condition with the strict p_value < alpha)
SegmentConflictStrictIff ==
    Extracted =>
      signals.segment_conflict <=>
           /\ Len(contract.segments) >= 2
           /\ GetOr(policy.seg_enabled, TRUE)
           /\ Cardinality(UsableSegments) >= 2
           /\ \E hi \in UsableSegments : \E lo \in UsableSegments :
                SegEffectPct(hi) - SegEffectPct(lo)
                  >= GetOr(policy.min_abs_pct_gap_for_conflict, DefaultMinGap)
           /\ \E seg \in UsableSegments :
                SegEffectPct(seg) > 0 /\ SegPval(seg) < signals.alpha
           /\ \E seg \in UsableSegments :
                SegEffectPct(seg) < 0 /\ SegPval(seg) < signals.alpha

----------------------------------------------------------------------------
(* SpecGuardrailColumn: a case evaluated, then evaluated again after one   *)
(* policy guardrail's {metric}_effect_relative column was removed from the *)
(* data table.                                                             *)

RevenueGuard == [metric |-> "revenue", threshold_pct |-> Some(-3000), severity |-> Some("hard")]

\* raw ctr values of the overall control and test rows: absent, a drop of
\* 4%, a drop of 1%, a control value of zero, an unparsable test value
RawCtr(kind) ==
    CASE kind = "absent" -> [control |-> <<>>, test |-> <<>>]
      [] kind = "drop4" -> [control |-> (RawCol("ctr") :> Num(50)),
                            test |-> (RawCol("ctr") :> Num(48))]
      [] kind = "drop1" -> [control |-> (RawCol("ctr") :> Num(100)),
                            test |-> (RawCol("ctr") :> Num(99))]
      [] kind = "zero" -> [control |-> (RawCol("ctr") :> Num(0)),
                           test |-> (RawCol("ctr") :> Num(48))]
      [] kind = "junk" -> [control |-> (RawCol("ctr") :> Num(50)),
                           test |-> (RawCol("ctr") :> Junk)]

ColumnTables ==
    { << OverallRow("control", ControlCols @@ RawCtr(raw).control),
         OverallRow("test", TestCols(pe, pp, ge, Num(-5)) @@ RawCtr(raw).test) >>
      \o SegRows(sk) :
        pe \in {Num(8), Num(-40)},
        pp \in {Num(10), Num(200)},
        ge \in {Empty, Num(-40), Num(-10)},
        raw \in {"absent", "drop4", "drop1", "zero", "junk"},
        sk \in {"none", "conflict"} }
    \cup { << OverallRow("test", TestCols(Num(8), Num(10), ge, Num(-5)) @@ RawCtr("drop4").test) >> :
           ge \in {Num(-40), Num(-10)} }

ColumnPolicies ==
    { [ BasePolicy EXCEPT !.guardrails = gs ] :
      gs \in { <<CtrGuard(Some("hard"))>>, <<CtrGuard(Some("soft"))>>,
               <<CtrGuard(Null), RevenueGuard>> } }

ColumnContracts ==
    { [ BaseContract EXCEPT !.notes = nt ] : nt \in {PlainNotes, ReversalNotes} }

InitColumn == Start(ColumnPolicies, ColumnContracts, ColumnTables)

\* the table without one column
WithoutColumn(table, col) ==
    [ i \in DOMAIN table |->
        [ table[i] EXCEPT !.cols = [c \in DOMAIN @ \ {col} |-> @[c]] ] ]

\* the same case evaluated again after the effect column of one policy
\* guardrail was removed from the data table
DropGuardrailColumn ==
    /\ pc = "done"
    /\ change.kind = "fresh"
    /\ \E i \in DOMAIN policy.guardrails :
         /\ \E j \in DOMAIN rows : EffectCol(policy.guardrails[i].metric) \in DOMAIN rows[j].cols
         /\ rows' = WithoutColumn(rows, EffectCol(policy.guardrails[i].metric))
         /\ change' = [kind |-> "drop_col", metric |-> policy.guardrails[i].metric]
    /\ pc' = "loaded"
    /\ UNCHANGED <<policy, contract, signals, dlocals, decision, conf, runs, workflow>>

NextColumn == Extract \/ Decide \/ Score \/ Finish \/ DropGuardrailColumn

SpecGuardrailColumn == InitColumn /\ [][NextColumn]_vars

ColumnDropped == pc = "done" /\ change.kind = "drop_col"

Before == runs[Len(runs) - 1]

After == runs[Len(runs)]

\* the guardrail whose column was removed was recorded as violated before
WasViolated ==
    \/ \E i \in DOMAIN Before.signals.hard_violations :
         Before.signals.hard_violations[i] = HardCode(change.metric)
    \/ \E i \in DOMAIN Before.signals.soft_violations :
         Before.signals.soft_violations[i] = SoftCode(change.metric)

ReportedMissing ==
    \E i \in DOMAIN After.confidence_explain.missing_evidence :
        After.confidence_explain.missing_evidence[i] = MissingGuardrail(change.metric)

SameVerdict == After.decision = Before.decision /\ After.reasons = Before.reasons

\* the raw overall control and test values from which the delta of the
\* removed column's metric can still be derived, as a set (empty when it
\* cannot: a row or value is missing or unparsable, or the control is zero)
RawPair ==
    LET ctl == {i \in DOMAIN rows : rows[i].variant = "control" /\ rows[i].segment = "all"}
        tst == {i \in DOMAIN rows : rows[i].variant # "control" /\ rows[i].segment = "all"}
    IN  IF ctl = {} \/ tst = {} THEN {}
        ELSE LET c == Cell(rows[CHOOSE i \in ctl : \A j \in ctl : i <= j], RawCol(change.metric))
                 t == Cell(rows[CHOOSE i \in tst : \A j \in tst : i <= j], RawCol(change.metric))
             IN  IF c.t = "num" /\ t.t = "num" /\ c.v # 0
                 THEN { [control |-> c.v, test |-> t.v] }
                 ELSE {}

\* C7 as stated: removing a policy guardrail's effect column leaves
\* decision and reasons unchanged unless that guardrail was the one causing
\* a violation, and adds guardrail:<metric> to missing_evidence.
C7_ColumnRemovalIsolated ==
    ColumnDropped =>
      /\ ~WasViolated => SameVerdict
      /\ ReportedMissing

\* C7 amended: the same, for a guardrail metric other than the primary
\* metric whose delta cannot be derived from the raw overall control and
\* test values; when it can be derived the guardrail is judged on
\* (test - control) / control and is not reported missing.
C7_ColumnRemovalAmended ==
    (ColumnDropped /\ change.metric # After.signals.primary_metric) =>
      /\ RawPair = {} =>
           /\ ~WasViolated => SameVerdict
           /\ ReportedMissing
           /\ After.signals.guardrails[change.metric] = Null
      /\ \A rp \in RawPair :
           /\ ~ReportedMissing
           /\ After.signals.guardrails[change.metric]
                = Some((((rp.test - rp.control) * 1000) \div rp.control) * 100)

\* the column of a guardrail that was not violated is removed, no raw
\* values exist, and the verdict stays while the guardrail is reported
\* missing
C7_Witness ==
    /\ ColumnDropped
    /\ change.metric = "ctr"
    /\ RawPair = {}
    /\ Before.signals.guardrails["ctr"] # Null
    /\ ~WasViolated
    /\ SameVerdict
    /\ ReportedMissing
    /\ ~(\E i \in DOMAIN Before.confidence_explain.missing_evidence :
           Before.confidence_explain.missing_evidence[i] = MissingGuardrail("ctr"))

----------------------------------------------------------------------------
(* Spec: a sequence of cases evaluated one after the other by the same     *)
(* process (run_case.py --all, selfcheck.py), each by a call of run.       *)

MaxRuns == 3

\* policies and contracts with and without a primary metric name
RunPolicies == { BasePolicy, [BasePolicy EXCEPT !.pm_name = Null] }

RunContracts ==
    { BaseContract,
      [BaseContract EXCEPT !.pm_name = Some("cpm")],
      [BaseContract EXCEPT !.pm_name = Null, !.notes = ReversalNotes] }

\* a clean uplift and a case breaching both guardrails
RunTables ==
    { Table(Num(32), Num(10), Num(-10), Num(-5), "none"),
      Table(Num(20), Num(10), Num(-40), Num(-30), "conflict") }

Init == Start(RunPolicies, RunContracts, RunTables)

\* the next case_dir of the loop: run is called again
NextCase ==
    /\ pc = "done"
    /\ Len(runs) < MaxRuns
    /\ policy' \in RunPolicies
    /\ contract' \in RunContracts
    /\ rows' \in RunTables
    /\ change' = [kind |-> "fresh", metric |-> ""]
    /\ pc' = "loaded"
    /\ UNCHANGED <<signals, dlocals, decision, conf, runs, workflow>>

Next == Extract \/ Decide \/ Score \/ Finish \/ NextCase

Spec == Init /\ [][Next]_vars

SameInputs(a, b) == a.policy = b.policy /\ a.contract = b.contract /\ a.rows = b.rows

NoPrimaryMetricName == contract.pm_name = Null /\ policy.pm_name = Null

\* C9 as stated: with no primary metric name in contract or policy the
\* evaluation fails before signal extraction proceeds and no decision is
\* produced.
C9_FailsWithoutMetricName ==
    NoPrimaryMetricName => pc \notin {"extracted", "decided", "scored", "done"}

\* C9 amended: with no primary metric name in contract or policy the
\* evaluation does not fail: it falls back to the metric "revenue", reads
\* that metric's columns and produces a decision.
C9_FallsBackToRevenue ==
    (NoPrimaryMetricName /\ Extracted) =>
      /\ signals.primary_metric = "revenue"
      /\ \A r \in FirstTestRow("all") :
           /\ signals.p_value = sf(Cell(r, PvalCol("revenue")))
           /\ signals.effect_relative = sf(Cell(r, EffectCol("revenue")))
      /\ pc = "done" =>
           /\ runs[Len(runs)].decision \in {"ship", "do_not_ship", "investigate"}
           /\ runs[Len(runs)].reasons # <<>>

\* a case without any primary metric name evaluated to the end on the
\* revenue columns
C9_Witness ==
    /\ NoPrimaryMetricName
    /\ pc = "done"
    /\ signals.primary_metric = "revenue"
    /\ signals.primary_uplift_pct = Some(3200)
    /\ runs[Len(runs)].decision = "do_not_ship"
    /\ runs[Len(runs)].reasons = <<Code("long_term_reversal")>>

----------------------------------------------------------------------------
(* SpecGuardrails: the two guardrail loops of _extract_signals over        *)
(* policies and contracts whose guardrail entries vary in severity,        *)
(* threshold, direction and limits, and tables whose guardrail cells and   *)
(* raw values are present, absent, unparsable or zero.                     *)

\* a policy guardrail on fillrate: hard, a drop of 5% or more
FillratePolicyGuard ==
    [metric |-> "fillrate", threshold_pct |-> Some(-5000), severity |-> Some("hard")]

\* policy guardrails: ctr alone, or ctr and fillrate
GuardPolicies ==
    { [ BasePolicy EXCEPT !.guardrails = gs ] :
      gs \in { <<[metric |-> "ctr", threshold_pct |-> th, severity |-> sev]>> \o more :
                 th \in {Null, Some(-3000)},
                 sev \in {Null, Some("hard"), Some("soft")},
                 more \in { <<>>, <<FillratePolicyGuard>> } } }

\* the contract's fillrate guardrail: limits of 2%, each present or absent
GuardContracts ==
    { [ BaseContract EXCEPT
          !.guardrails = << [ name |-> "fillrate", direction |-> dir,
                              max_drop_relative |-> md, max_rise_relative |-> mr ] >> ] :
      dir \in {Null, Some("up"), Some("neutral"), Some("down")},
      md \in {Null, Some(20)},
      mr \in {Null, Some(20)} }

\* the raw values of a metric in the overall control and test rows: absent,
\* a drop of 4%, a control value of zero, an unparsable test value
RawValues(metric, kind) ==
    CASE kind = "absent" -> [control |-> <<>>, test |-> <<>>]
      [] kind = "drop4" -> [control |-> (RawCol(metric) :> Num(50)),
                            test |-> (RawCol(metric) :> Num(48))]
      [] kind = "zero" -> [control |-> (RawCol(metric) :> Num(0)),
                           test |-> (RawCol(metric) :> Num(48))]
      [] kind = "junk" -> [control |-> (RawCol(metric) :> Num(50)),
                           test |-> (RawCol(metric) :> Junk)]

\* revenue +3.2%; the ctr and fillrate effect cells and raw values vary
GuardTables ==
    { << OverallRow("control",
             ControlCols @@ RawValues("ctr", raw).control
                         @@ RawValues("fillrate", raw).control),
         OverallRow("test",
             TestCols(Num(32), pp, ge, fe) @@ RawValues("ctr", raw).test
                                           @@ RawValues("fillrate", raw).test) >> :
        pp \in {Num(10), Num(200)},
        ge \in {Empty, Junk, Num(-40), Num(-30), Num(-10)},
        fe \in {Empty, Num(-30), Num(-20), Num(20), Num(30)},
        raw \in {"absent", "drop4", "zero", "junk"} }
    \cup { << OverallRow("control", ControlCols @@ RawValues("ctr", "drop4").control) >>,
           << OverallRow("test", TestCols(Num(32), Num(10), Empty, Num(-30))
                                   @@ RawValues("ctr", "drop4").test) >> }

InitGuardrails == Start(GuardPolicies, GuardContracts, GuardTables)

NextGuardrails == Extract \/ Decide \/ Score \/ Finish

SpecGuardrails == InitGuardrails /\ [][NextGuardrails]_vars

\* the metric names of the policy guardrails / the names of the contract's
PolicyGuardMetrics == {policy.guardrails[i].metric : i \in DOMAIN policy.guardrails}

ContractGuardNames == {contract.guardrails[i].name : i \in DOMAIN contract.guardrails}

InSeq(x, s) == \E i \in DOMAIN s : s[i] = x

ReasonVocabulary ==
    { Code("primary_uplift"), Code("long_term_reversal"), Code("segment_conflict"),
      Code("practically_small"), Code("not_significant"), Code("insufficient_evidence") }

\* C11: every reason code of an emitted decision is one of primary_uplift,
\* long_term_reversal, segment_conflict, practically_small, not_significant,
\* insufficient_evidence, or guardrail_violation:<metric> for a guardrail
\* metric named in the policy or the contract; no soft-violation code is
\* ever among the reasons.
C11_ReasonVocabulary ==
    Decided =>
      \A i \in DOMAIN decision.reasons :
        LET code == decision.reasons[i]
        IN  /\ \/ code \in ReasonVocabulary
               \/ /\ code[1] = "guardrail_violation:"
                  /\ code[2] \in PolicyGuardMetrics \cup ContractGuardNames
            /\ code[1] # "guardrail_soft_violation:"

\* a soft policy guardrail and a contract guardrail are both violated: the
\* decision names the contract guardrail only
C11_Witness ==
    /\ pc = "done"
    /\ signals.soft_violations = <<SoftCode("ctr")>>
    /\ signals.hard_violations = <<HardCode("fillrate")>>
    /\ runs[Len(runs)].decision = "do_not_ship"
    /\ runs[Len(runs)].reasons = <<Code("primary_uplift"), HardCode("fillrate")>>

\* C12: a policy guardrail is recorded as violated exactly when its delta
\* is non-null and delta_pct <= threshold_pct (threshold 0 when the policy
\* gives none), as a hard violation when the policy severity is hard or
\* absent and as a soft violation otherwise; a guardrail whose delta is
\* null is recorded neither as a hard nor as a soft violation.
C12_PolicyGuardrailViolation ==
    Extracted =>
      \A i \in DOMAIN policy.guardrails :
        LET pg == policy.guardrails[i]
            delta == signals.guardrails[pg.metric]
            breached == /\ delta # Null
                        /\ Val(delta) <= GetOr(pg.threshold_pct, DefaultGuardThresholdPct)
            hard == GetOr(pg.severity, "hard") = "hard"
        IN  /\ InSeq(HardCode(pg.metric), signals.hard_violations) <=> (breached /\ hard)
            /\ InSeq(SoftCode(pg.metric), signals.soft_violations) <=> (breached /\ ~hard)
            /\ delta = Null =>
                 /\ ~InSeq(HardCode(pg.metric), signals.hard_violations)
                 /\ ~InSeq(SoftCode(pg.metric), signals.soft_violations)

\* a ctr delta of exactly the threshold -3.0 under a soft guardrail is a
\* soft violation, while the fillrate policy guardrail without any delta
\* is no violation
C12_Witness ==
    /\ pc = "extracted"
    /\ Len(policy.guardrails) = 2
    /\ policy.guardrails[1].severity = Some("soft")
    /\ policy.guardrails[1].threshold_pct = Some(-3000)
    /\ signals.guardrails["ctr"] = Some(-3000)
    /\ signals.guardrails["fillrate"] = Null
    /\ signals.soft_violations = <<SoftCode("ctr")>>
    /\ signals.hard_violations = <<>>

\* the verdict of the policy on one of its guardrail metrics
PolicyVerdictHard(metric) ==
    \E i \in DOMAIN policy.guardrails :
        /\ policy.guardrails[i].metric = metric
        /\ signals.guardrails[metric] # Null
        /\ Val(signals.guardrails[metric])
             <= GetOr(policy.guardrails[i].threshold_pct, DefaultGuardThresholdPct)
        /\ GetOr(policy.guardrails[i].severity, "hard") = "hard"

\* C13: a contract guardrail whose name is not a policy guardrail metric
\* is violated, always as a hard violation, exactly when its direction is
\* up or neutral (or absent, which counts as up) and the effect is negative
\* with magnitude strictly greater than max_drop_relative, or its direction
\* is down and the effect is positive and strictly greater than
\* max_rise_relative; a contract guardrail whose name is a policy guardrail
\* metric is judged by the policy threshold only, whatever its limits.
C13_ContractGuardrailRule ==
    Extracted =>
      \A i \in DOMAIN contract.guardrails :
        LET g == contract.guardrails[i]
            delta == signals.guardrails[g.name]
            direction == GetOr(g.direction, "up")
            beyond_drop == /\ direction \in {"up", "neutral"}
                           /\ g.max_drop_relative # Null
                           /\ Val(delta) < 0
                           /\ -Val(delta) > Val(g.max_drop_relative) * 100
            beyond_rise == /\ direction = "down"
                           /\ g.max_rise_relative # Null
                           /\ Val(delta) > 0
                           /\ Val(delta) > Val(g.max_rise_relative) * 100
        IN  IF g.name \notin PolicyGuardMetrics
            THEN /\ InSeq(HardCode(g.name), signals.hard_violations)
                      <=> (delta # Null /\ (beyond_drop \/ beyond_rise))
                 /\ ~InSeq(SoftCode(g.name), signals.soft_violations)
            ELSE InSeq(HardCode(g.name), signals.hard_violations)
                      <=> PolicyVerdictHard(g.name)

\* a fillrate guardrail of direction down whose effect +3% exceeds the
\* allowed rise of 2% is a hard violation; the policy has no fillrate
\* guardrail
C13_Witness ==
    /\ pc = "extracted"
    /\ "fillrate" \notin PolicyGuardMetrics
    /\ contract.guardrails[1].direction = Some("down")
    /\ contract.guardrails[1].max_rise_relative = Some(20)
    /\ signals.guardrails["fillrate"] = Some(3000)
    /\ InSeq(HardCode("fillrate"), signals.hard_violations)

\* the first control row of a segment, as a set (empty when none)
FirstControlRow(seg) ==
    LET idx == {i \in DOMAIN rows : rows[i].segment = seg /\ rows[i].variant = "control"}
    IN  IF idx = {} THEN {}
        ELSE {rows[CHOOSE i \in idx : \A j \in idx : i <= j]}

\* the parsable {metric}_effect_relative cell of the overall test row
PrecomputedEffect(metric) ==
    { Cell(r, EffectCol(metric)).v :
        r \in {x \in FirstTestRow("all") : Cell(x, EffectCol(metric)).t = "num"} }

\* the parsable raw (control, test) values of the overall rows
RawValuesOf(metric) ==
    { <<Cell(c, RawCol(metric)).v, Cell(t, RawCol(metric)).v>> :
        c \in {x \in FirstControlRow("all") : Cell(x, RawCol(metric)).t = "num"},
        t \in {x \in FirstTestRow("all") : Cell(x, RawCol(metric)).t = "num"} }

\* C14: for every guardrail of the policy and of the contract a delta entry
\* is recorded, violated or not: the precomputed {metric}_effect_relative
\* of the overall test row (as a percentage) when that cell holds a number;
\* otherwise (test - control) / control of the raw overall values; and null
\* when the control value is zero or either raw value is missing or
\* unparsable.
C14_GuardrailDelta ==
    Extracted =>
      \A metric \in PolicyGuardMetrics \cup ContractGuardNames :
        /\ metric \in DOMAIN signals.guardrails
        /\ \A e \in PrecomputedEffect(metric) :
             signals.guardrails[metric] = Some(e * 100)
        /\ PrecomputedEffect(metric) = {} =>
             /\ \A cvtv \in RawValuesOf(metric) :
                  signals.guardrails[metric] =
                    IF cvtv[1] # 0
                    THEN Some((((cvtv[2] - cvtv[1]) * 1000) \div cvtv[1]) * 100)
                    ELSE Null
             /\ RawValuesOf(metric) = {} => signals.guardrails[metric] = Null

\* the ctr cell is empty and the raw control value is 0: the ctr delta is
\* null; the fillrate cell holds -2.0%, recorded though within the limit
C14_Witness ==
    /\ pc = "extracted"
    /\ PrecomputedEffect("ctr") = {}
    /\ RawValuesOf("ctr") = { <<0, 48>> }
    /\ signals.guardrails["ctr"] = Null
    /\ "fillrate" \notin PolicyGuardMetrics
    /\ signals.guardrails["fillrate"] = Some(-2000)
    /\ signals.hard_violations = <<>>
    /\ signals.soft_violations = <<>>

----------------------------------------------------------------------------
(* SpecEvidence: extraction and scoring over policies whose segment and    *)
(* long-term sections are enabled, disabled or silent, contracts with and  *)
(* without an alpha of their own, notes with and without the keywords, and *)
(* tables whose primary cells are present or absent.                       *)

TrendChangeNotes == <<"T","R","E","N","D"," ","C","H","A","N","G","E">>

\* "Reverted": shares a prefix with the keywords but contains none of them
RevertedNotes == <<"R","e","v","e","r","t","e","d">>

\* policy alpha absent (0.05) or 0.10
EvidencePolicies ==
    { [ BasePolicy EXCEPT !.lt_enabled = lt, !.seg_enabled = sg, !.alpha = al ] :
      lt \in {Null, Some(TRUE), Some(FALSE)},
      sg \in {Null, Some(TRUE), Some(FALSE)},
      al \in {Null, Some(100)} }

\* contract alpha absent or 0.01; no, one or two declared segments
EvidenceContracts ==
    { [ BaseContract EXCEPT !.alpha = al, !.notes = nt, !.segments = sgs ] :
      al \in {Null, Some(10)},
      nt \in {PlainNotes, ReversalNotes, TrendChangeNotes, RevertedNotes},
      sgs \in { <<>>, <<"new">>, <<"new", "returning">> } }

\* effect absent, +0.3% or +3.2%; p-value absent, 0.01, 0.03 or 0.2
EvidenceTables ==
    { Table(pe, pp, ge, Num(-5), sk) :
        pe \in {Empty, Num(3), Num(32)},
        pp \in {Empty, Num(10), Num(30), Num(200)},
        ge \in {Empty, Num(-10)},
        sk \in {"none", "conflict"} }
    \cup {ControlOnlyTable}

InitEvidence == Start(EvidencePolicies, EvidenceContracts, EvidenceTables)

NextEvidence == Extract \/ Decide \/ Score \/ Finish

SpecEvidence == InitEvidence /\ [][NextEvidence]_vars

\* the lower-cased notes contain reversal, revers or trend change
NotesMentionReversal ==
    \E kw \in { <<"r","e","v","e","r","s","a","l">>,
                <<"r","e","v","e","r","s">>,
                <<"t","r","e","n","d"," ","c","h","a","n","g","e">> } :
        Contains(Lower(contract.notes), kw)

FactorNames(c) == {c.factors[i].name : i \in DOMAIN c.factors}

\* C15: the long-term-reversal flag is true exactly when policy
\* long_term.enabled is not false and the lower-cased contract notes contain
\* one of reversal, revers, trend change; when long_term.enabled is false
\* the flag is false for every contract, no decision carries the
\* long_term_reversal reason (step 2 never fires) and the long_term_reversal
\* confidence factor is never added.
C15_LongTermReversal ==
    Extracted =>
      /\ signals.long_term_reversal
           <=> (policy.lt_enabled # Some(FALSE) /\ NotesMentionReversal)
      /\ policy.lt_enabled = Some(FALSE) =>
           /\ ~signals.long_term_reversal
           /\ Decided => ~InSeq(Code("long_term_reversal"), decision.reasons)
           /\ Scored => "long_term_reversal" \notin FactorNames(conf)

\* long-term checking is disabled and the notes say "Trend Reversal": the
\* significant +3.2% uplift is shipped and the factor is not added
C15_Witness ==
    /\ pc = "done"
    /\ policy.lt_enabled = Some(FALSE)
    /\ contract.notes = ReversalNotes
    /\ ~signals.long_term_reversal
    /\ runs[Len(runs)].decision = "ship"
    /\ runs[Len(runs)].reasons = <<Code("primary_uplift")>>
    /\ "long_term_reversal" \notin FactorNames(conf)

UpliftAtLeastPolicyThreshold ==
    /\ signals.primary_uplift_pct # Null
    /\ Abs(Val(signals.primary_uplift_pct))
         >= GetOr(policy.practical_threshold_pct, DefaultPracticalPct)

\* C16 as stated: for every signal set the confidence factors contain
\* exactly one of primary_uplift_strong and primary_uplift_small: strong when
\* |uplift| >= policy practical_threshold_pct, small in every other case.
C16_ExactlyOneUpliftFactor ==
    Scored =>
      /\ "primary_uplift_strong" \in FactorNames(conf) <=> UpliftAtLeastPolicyThreshold
      /\ "primary_uplift_small" \in FactorNames(conf) <=> ~UpliftAtLeastPolicyThreshold

\* C16 amended: the confidence factors contain at most one of
\* primary_uplift_strong and primary_uplift_small: strong when the uplift is
\* non-null and |uplift| >= policy practical_threshold_pct, small when it is
\* non-null and below, and neither when the uplift is null, in which case
\* primary_uplift_pct is listed as missing evidence.
C16_UpliftFactorAmended ==
    Scored =>
      /\ "primary_uplift_strong" \in FactorNames(conf) <=> UpliftAtLeastPolicyThreshold
      /\ "primary_uplift_small" \in FactorNames(conf)
           <=> (signals.primary_uplift_pct # Null /\ ~UpliftAtLeastPolicyThreshold)
      /\ signals.primary_uplift_pct = Null =>
           /\ FactorNames(conf) \cap {"primary_uplift_strong", "primary_uplift_small"} = {}
           /\ InSeq(Code("primary_uplift_pct"), conf.missing_evidence)

\* the effect cell of the overall test row is empty: neither uplift factor
\* is added and the uplift is reported missing
C16_Witness ==
    /\ pc = "scored"
    /\ FirstTestRow("all") # {}
    /\ signals.primary_uplift_pct = Null
    /\ signals.p_value = Some(10)
    /\ FactorNames(conf) \cap {"primary_uplift_strong", "primary_uplift_small"} = {}
    /\ "evidence_sparse" \in FactorNames(conf)
    /\ InSeq(Code("primary_uplift_pct"), conf.missing_evidence)

\* C17: the confidence scorer and the signal extractor agree on
\* significance: the not_significant confidence factor is added exactly
\* when the is_significant flag of the signal set is false, that is, when
\* the p-value is null or exceeds the alpha of the case (the contract's
\* alpha if present, else the policy's, else 0.05).
C17_ScorerAgreesOnSignificance ==
    Scored =>
      /\ "not_significant" \in FactorNames(conf) <=> ~signals.is_significant
      /\ ~signals.is_significant
           <=> \/ signals.p_value = Null
               \/ Val(signals.p_value)
                    > GetOr(contract.alpha, GetOr(policy.alpha, DefaultAlpha))

SeqToSet(s) == {s[i] : i \in DOMAIN s}

\* the identifiers C18 expects in missing_evidence, a section of the policy
\* counting as enabled when `enabled` is true in the sense given
ExpectedMissing(segments_enabled, long_term_enabled) ==
    (IF signals.primary_uplift_pct = Null THEN {Code("primary_uplift_pct")} ELSE {})
    \cup (IF signals.p_value = Null THEN {Code("p_value")} ELSE {})
    \cup { MissingGuardrail(metric) :
             metric \in {x \in PolicyGuardMetrics : signals.guardrails[x] = Null} }
    \cup (IF segments_enabled /\ ~signals.has_segment_data THEN {Code("segments")} ELSE {})
    \cup (IF long_term_enabled /\ ~signals.has_long_term_data THEN {Code("long_term")} ELSE {})

\* C18: the evidence_sparse factor is added exactly when missing_evidence
\* is non-empty, and missing_evidence contains exactly primary_uplift_pct
\* when the uplift is null, p_value when the p-value is null,
\* guardrail:<metric> for each policy guardrail whose delta is null,
\* segments when policy segments are enabled (as for the conflict test:
\* enabled unless set to false) and the signal set reports no segment data,
\* and long_term when long-term checking is enabled (as for the reversal
\* flag) and the signal set reports no long-term data.
C18_MissingEvidence ==
    Scored =>
      /\ "evidence_sparse" \in FactorNames(conf) <=> conf.missing_evidence # <<>>
      /\ SeqToSet(conf.missing_evidence)
           = ExpectedMissing(policy.seg_enabled # Some(FALSE),
                             policy.lt_enabled # Some(FALSE))

\* (for comparison: the same with a section counting as enabled only when
\* the policy sets enabled to true)
MissingEvidenceWhenExplicitlyEnabled ==
    Scored =>
      /\ "evidence_sparse" \in FactorNames(conf) <=> conf.missing_evidence # <<>>
      /\ SeqToSet(conf.missing_evidence)
           = ExpectedMissing(policy.seg_enabled = Some(TRUE),
                             policy.lt_enabled = Some(TRUE))

\* declared segments with at least one non-control row in the table
SegmentsWithRows ==
    { seg \in SeqToSet(contract.segments) : FirstTestRow(seg) # {} }

\* C19: has_segment_data is true only when at least one segment declared by
\* the contract has a non-control row in the data table; a contract that
\* declares two or more segments for which the table has no rows yields
\* has_segment_data = false and, when policy segments are enabled, segments
\* in missing_evidence.
C19_SegmentDataObserved ==
    Extracted =>
      /\ signals.has_segment_data => SegmentsWithRows # {}
      /\ (Len(contract.segments) >= 2 /\ SegmentsWithRows = {}) =>
           /\ ~signals.has_segment_data
           /\ (Scored /\ policy.seg_enabled = Some(TRUE)) =>
                InSeq(Code("segments"), conf.missing_evidence)

\* the weight the policy gives a factor, 0 when it gives none
PolicyWeight(name) ==
    IF name \in DOMAIN policy.weights THEN policy.weights[name] ELSE 0

\* the condition the scorer tests for each factor, on the signal set
ScorerCondition(name) ==
    LET uplift == signals.primary_uplift_pct
        practical == GetOr(policy.practical_threshold_pct, DefaultPracticalPct)
    IN  CASE name = "primary_uplift_strong" ->
               uplift # Null /\ Abs(Val(uplift)) >= practical
          [] name = "primary_uplift_small" ->
               uplift # Null /\ Abs(Val(uplift)) < practical
          [] name = "not_significant" ->
               \/ signals.p_value = Null
               \/ Val(signals.p_value) > GetOr(policy.alpha, DefaultAlpha)
          [] name = "guardrail_hard_violation" -> signals.hard_violations # <<>>
          [] name = "guardrail_soft_violation" -> signals.soft_violations # <<>>
          [] name = "segment_conflict" -> signals.segment_conflict
          [] name = "long_term_reversal" -> signals.long_term_reversal
          [] name = "evidence_sparse" -> conf.missing_evidence # <<>>

\* every factor that fired is listed, once, with the policy's weight
FactorsListed ==
    /\ \A name \in SeqToSet(FactorOrder) :
         name \in FactorNames(conf) <=> ScorerCondition(name)
    /\ Cardinality(FactorNames(conf)) = Len(conf.factors)
    /\ \A i \in DOMAIN conf.factors :
         conf.factors[i].weight = PolicyWeight(conf.factors[i].name)

\* policy base plus the listed weights, in units of 0.00001
ListedScore ==
    LET S[i \in 0..Len(conf.factors)] ==
            IF i = 0 THEN 0 ELSE S[i - 1] + conf.factors[i].weight
    IN  (GetOr(policy.base, 0) + S[Len(conf.factors)]) * 100
        + (IF policy.base # Null THEN policy.base_frac ELSE 0)

\* 1 / (1 + e^-s) of the listed score, in units of 0.000001
ListedLogistic == Logistic(ListedScore \div 100)

\* C20 as stated: the explanation lists every factor that fired, each with
\* the weight taken from policy (0 when the policy has none for it), its
\* score equals policy base plus the sum of the listed weights, and the
\* reported confidence is the logistic of that score clamped to
\* [0.01, 0.99].
C20_ExplanationAddsUp ==
    Scored =>
      /\ FactorsListed
      /\ conf.score_round4 * 10 = ListedScore
      /\ conf.confidence * 100 = Max2(10000, Min2(990000, ListedLogistic))

\* C20 amended: the same, the reported score being base plus the listed
\* weights rounded to four decimals, and the reported confidence the
\* logistic of the unrounded sum, rounded to four decimals and then clamped
\* to [0.01, 0.99].
C20_ExplanationAmended ==
    Scored =>
      /\ FactorsListed
      /\ conf.score_round4 * 10 - ListedScore \in -5..5
      /\ conf.score_round4 * 10 - ListedScore \in {-5, 5} => conf.score_round4 % 2 = 0
      /\ \E c \in (ListedLogistic \div 100)..(ListedLogistic \div 100 + 1) :
           /\ c * 100 - ListedLogistic \in -50..50
           /\ c * 100 - ListedLogistic \in {-50, 50} => c % 2 = 0
           /\ conf.confidence = Max2(100, Min2(9900, c))

\* base 0.50016 and four factors, two without a weight in the policy: the
\* score 0.50016 + 800 - 800 + 0 + 0 is reported as 0.5002 and the confidence
\* 0.622459... as 0.6225
C20_Witness ==
    /\ pc = "scored"
    /\ policy.base = Some(500)
    /\ policy.base_frac = 16
    /\ policy.weights = HeavyWeights
    /\ [i \in DOMAIN conf.factors |-> conf.factors[i].name]
         = << "primary_uplift_strong", "not_significant",
              "guardrail_soft_violation", "long_term_reversal" >>
    /\ conf.factors[3].weight = 0
    /\ conf.factors[4].weight = 0
    /\ conf.score_round4 = 5002
    /\ conf.confidence = 6225

----------------------------------------------------------------------------
(* Frame conditions of the three functions, over sequences of cases (Spec) *)

InsideRun == pc \in {"loaded", "extracted", "decided", "scored"}

\* C21: signal extraction, decision and confidence scoring leave their
\* inputs unchanged: no step of an evaluation changes contract, data rows or
\* policy, and once extracted the signal set is changed neither by
\* _make_decision nor by _compute_confidence; in particular
\* signals.hard_violations is the same after primary_uplift was prepended
\* to the reasons in step 1.
C21_InputsUnchanged ==
    [][ /\ InsideRun => inputs' = inputs
        /\ (InsideRun /\ pc # "loaded") => signals' = signals ]_vars

\* step 1 has prepended primary_uplift to its reasons and the violation
\* list of the signal set is as extracted
C21_Witness ==
    /\ pc = "done"
    /\ runs[Len(runs)].reasons
         = <<Code("primary_uplift"), HardCode("ctr"), HardCode("fillrate")>>
    /\ signals.hard_violations = <<HardCode("ctr"), HardCode("fillrate")>>
    /\ signals = extract_signals(contract, rows, policy)

----------------------------------------------------------------------------
(* The synthetic cases of generate_cases.py, evaluated under the policy    *)
(* defaults (SpecGenerated).  Every random.uniform draw is taken at the    *)
(* two ends of its range; values finer than 0.001 lie between the ends.    *)

\* _load_policy finds no policy file and returns {}: every policy lookup
\* takes the default of its dict.get
DefaultPolicy ==
    [ pm_name |-> Null, practical_threshold_pct |-> Null, alpha |-> Null,
      require_significance_for_ship |-> Null,
      allow_investigate_if_not_significant |-> Null,
      guardrails |-> <<>>,
      seg_enabled |-> Null, min_abs_pct_gap_for_conflict |-> Null,
      conflict_action |-> Null,
      lt_enabled |-> Null, reversal_action |-> Null,
      base |-> Null, base_frac |-> 0, weights |-> NoWeights ]

\* random.uniform(lo, hi), rounded: the two ends of the range
Ends(lo, hi) == {lo, hi}

\* round(x, 3) of x = n / 1000 thousandths
RoundThousandths(n) ==
    LET q == n \div 1000
        r == n % 1000
    IN  IF r < 500 THEN q
        ELSE IF r > 500 THEN q + 1
        ELSE IF q % 2 = 0 THEN q ELSE q + 1

SEGMENTS_POOL == { <<"news", "dzen">>, <<"feed", "article">>, <<"mobile", "desktop">> }

\* _build_base_metrics: the raw metrics a generated contract can name.
\* revenue is in whole currency units and ctr at the resolution 0.001; no
\* generated contract names n_users, cpm or shows.
BaseMetrics == { [revenue |-> 1000000, fillrate |-> f, ctr |-> 50] : f \in Ends(600, 950) }

\* random.uniform(-0.005, 0.005) of _apply_effect
FillrateDrifts == Ends(-5, 5)

\* _apply_effect
ApplyEffect(base, revenue_eff, ctr_eff, drift) ==
    [ revenue |-> (base.revenue \div 1000) * (1000 + revenue_eff),
      fillrate |-> RoundThousandths(base.fillrate * (1000 + drift)),
      ctr |-> RoundThousandths(base.ctr * (1000 + ctr_eff)) ]

\* _row of _csv_rows: the effect cells are "" where the argument is None
CsvRow(seg, var, metrics, eff_r, pv_r, eff_c, pv_c) ==
    [ segment |-> seg, variant |-> var,
      cols |-> (RawCol("revenue") :> Num(metrics.revenue))
               @@ (RawCol("fillrate") :> Num(metrics.fillrate))
               @@ (RawCol("ctr") :> Num(metrics.ctr))
               @@ (EffectCol("revenue") :> eff_r) @@ (PvalCol("revenue") :> pv_r)
               @@ (EffectCol("ctr") :> eff_c) @@ (PvalCol("ctr") :> pv_c) ]

\* _csv_rows: the two overall rows, then control and test of every segment
CsvRows(control, test, rev_eff, rev_pval, ctr_eff, ctr_pval, seg_data) ==
    << CsvRow("all", "control", control, Empty, Empty, Empty, Empty),
       CsvRow("all", "test", test, Num(rev_eff), Num(rev_pval), Num(ctr_eff), Num(ctr_pval)) >>
    \o [ k \in 1..(2 * Len(seg_data)) |->
           LET sd == seg_data[(k + 1) \div 2]
           IN  IF k % 2 = 1
               THEN CsvRow(sd.seg, "control", sd.control, Empty, Empty, Empty, Empty)
               ELSE CsvRow(sd.seg, "test", sd.test, Num(sd.rev_eff), Num(sd.rev_pval),
                           Num(sd.ctr_eff), Num(sd.ctr_pval)) ]

\* a guardrail entry of a generated contract
GenGuard(name, direction, max_drop) ==
    [ name |-> name, direction |-> Some(direction),
      max_drop_relative |-> Some(max_drop), max_rise_relative |-> Null ]

\* the fields of a generated contract the engine reads; stats.alpha is 0.05
\* and the primary metric "revenue" in all five generators
GenContract(practical, guardrails, segments, notes) ==
    [ pm_name |-> Some("revenue"), alpha |-> Some(50),
      practical_threshold_relative |-> Some(practical),
      guardrails |-> guardrails, segments |-> segments, notes |-> notes ]

\* (contract, truth, data) as a generator returns them
GenCase(kind, case_contract, expected_decision, data) ==
    [ kind |-> kind, contract |-> case_contract, expected_decision |-> expected_decision,
      data |-> data ]

\* f"Standard experiment #{idx}. Clean uplift expected." with idx = 1
NotesCleanUplift ==
    << "S","t","a","n","d","a","r","d"," ","e","x","p","e","r","i","m","e",
       "n","t"," ","#","1","."," ","C","l","e","a","n"," ","u","p","l","i",
       "f","t"," ","e","x","p","e","c","t","e","d","." >>

\* f"Experiment #{idx}. Expected engagement trade-off." with idx = 1
NotesGuardrailBreach ==
    << "E","x","p","e","r","i","m","e","n","t"," ","#","1","."," ","E","x",
       "p","e","c","t","e","d"," ","e","n","g","a","g","e","m","e","n","t",
       " ","t","r","a","d","e","-","o","f","f","." >>

\* f"High-power experiment #{idx}. Large sample makes tiny effects significant." with idx = 1
NotesPracticallySmall ==
    << "H","i","g","h","-","p","o","w","e","r"," ","e","x","p","e","r","i",
       "m","e","n","t"," ","#","1","."," ","L","a","r","g","e"," ","s","a",
       "m","p","l","e"," ","m","a","k","e","s"," ","t","i","n","y"," ","e",
       "f","f","e","c","t","s"," ","s","i","g","n","i","f","i","c","a","n",
       "t","." >>

\* f"Experiment #{idx}. Cross-segment test." with idx = 1
NotesSegmentConflict ==
    << "E","x","p","e","r","i","m","e","n","t"," ","#","1","."," ","C","r",
       "o","s","s","-","s","e","g","m","e","n","t"," ","t","e","s","t",
       "." >>

\* f"28-day holdout #{idx}. Week-over-week analysis reveals trend reversal after week 2." with idx = 1
NotesLongTermReversal ==
    << "2","8","-","d","a","y"," ","h","o","l","d","o","u","t"," ","#","1",
       "."," ","W","e","e","k","-","o","v","e","r","-","w","e","e","k"," ",
       "a","n","a","l","y","s","i","s"," ","r","e","v","e","a","l","s"," ",
       "t","r","e","n","d"," ","r","e","v","e","r","s","a","l"," ","a","f",
       "t","e","r"," ","w","e","e","k"," ","2","." >>

\* gen_clean_uplift: expected_decision "ship"
gen_clean_uplift ==
    UNION { UNION {
      { LET test == ApplyEffect(base, rev_eff, ctr_eff, drift)
        IN  GenCase("clean_uplift",
                    GenContract(practical,
                                << GenGuard("ctr", "up", 30), GenGuard("dau", "neutral", 20) >>,
                                <<>>, NotesCleanUplift),
                    "ship",
                    CsvRows(base, test, rev_eff, rev_pval, ctr_eff, ctr_pval, <<>>)) :
          rev_eff \in Ends(Max2(practical + 2, 10), 50),
          rev_pval \in Ends(1, 40),
          ctr_eff \in Ends(-20, 20),
          ctr_pval \in Ends(100, 900),
          base \in BaseMetrics,
          drift \in FillrateDrifts } :
      practical \in Ends(3, mde - 1) } :
      mde \in Ends(5, 20) }

\* gen_guardrail_breach: expected_decision "do_not_ship"
gen_guardrail_breach ==
    { LET max_drop == 30
          ctr_eff == -ctr_drop
          test == ApplyEffect(base, rev_eff, ctr_eff, drift)
      IN  GenCase("guardrail_breach",
                  GenContract(practical,
                              << GenGuard("ctr", "up", max_drop),
                                 GenGuard("dau", "neutral", 20) >>,
                              <<>>, NotesGuardrailBreach),
                  "do_not_ship",
                  CsvRows(base, test, rev_eff, rev_pval, ctr_eff, ctr_pval, <<>>)) :
        rev_eff \in Ends(8, 30),
        rev_pval \in Ends(1, 40),
        ctr_drop \in Ends(30 + 5, 30 + 40),
        ctr_pval \in Ends(1, 40),
        practical \in Ends(3, 8),
        base \in BaseMetrics,
        drift \in FillrateDrifts }

\* gen_practically_small: expected_decision "do_not_ship".  The p-value
\* range starts at 0.0001, below the model's resolution: read as 0.
gen_practically_small ==
    UNION {
      { LET test == ApplyEffect(base, rev_eff, ctr_eff, drift)
        IN  GenCase("practically_small",
                    GenContract(practical, << GenGuard("ctr", "up", 30) >>,
                                <<>>, NotesPracticallySmall),
                    "do_not_ship",
                    CsvRows(base, test, rev_eff, rev_pval, ctr_eff, ctr_pval, <<>>)) :
          rev_eff \in Ends(1, practical - 1),
          rev_pval \in Ends(0, 10),
          ctr_eff \in Ends(-10, 10),
          ctr_pval \in Ends(100, 900),
          base \in BaseMetrics,
          drift \in FillrateDrifts } :
      practical \in Ends(5, 10) }

\* _split of gen_segment_conflict: a segment's share of the base metrics
Split(metrics, frac) ==
    [ revenue |-> (metrics.revenue \div 100) * frac,
      fillrate |-> metrics.fillrate, ctr |-> metrics.ctr ]

\* gen_segment_conflict: expected_decision "investigate"
gen_segment_conflict ==
    { LET test_all == ApplyEffect(base, overall_eff, ctr_eff, drift)
          frac2 == 100 - frac1
          sc1 == Split(base, frac1)
          sc2 == Split(base, frac2)
          seg_data ==
            << [ seg |-> segments[1], control |-> sc1,
                 test |-> ApplyEffect(sc1, seg1_eff, ctr_eff, drift),
                 rev_eff |-> seg1_eff, rev_pval |-> seg1_pval,
                 ctr_eff |-> ctr_eff, ctr_pval |-> ctr_pval ],
               [ seg |-> segments[2], control |-> sc2,
                 test |-> ApplyEffect(sc2, seg2_eff, ctr_eff, drift),
                 rev_eff |-> seg2_eff, rev_pval |-> seg2_pval,
                 ctr_eff |-> ctr_eff, ctr_pval |-> ctr_pval ] >>
      IN  GenCase("segment_conflict",
                  GenContract(5, << GenGuard("ctr", "up", 30) >>,
                              segments, NotesSegmentConflict),
                  "investigate",
                  CsvRows(base, test_all, overall_eff, overall_pval, ctr_eff, ctr_pval,
                          seg_data)) :
        segments \in SEGMENTS_POOL,
        overall_eff \in Ends(-5, 10),
        overall_pval \in Ends(100, 500),
        seg1_eff \in Ends(15, 50),
        seg1_pval \in Ends(1, 40),
        seg2_eff \in Ends(-50, -10),
        seg2_pval \in Ends(1, 40),
        ctr_eff \in Ends(-15, 5),
        ctr_pval \in Ends(100, 800),
        frac1 \in Ends(45, 65),
        base \in BaseMetrics,
        drift \in FillrateDrifts }

\* gen_long_term_reversal: expected_decision "do_not_ship"
gen_long_term_reversal ==
    { LET test == ApplyEffect(base, overall_eff, ctr_eff, drift)
      IN  GenCase("long_term_reversal",
                  GenContract(5,
                              << GenGuard("ctr", "up", 30), GenGuard("fillrate", "up", 50) >>,
                              <<>>, NotesLongTermReversal),
                  "do_not_ship",
                  CsvRows(base, test, overall_eff, overall_pval, ctr_eff, ctr_pval, <<>>)) :
        overall_eff \in Ends(-5, 8),
        overall_pval \in Ends(100, 600),
        ctr_eff \in Ends(-20, 5),
        ctr_pval \in Ends(100, 800),
        base \in BaseMetrics,
        drift \in FillrateDrifts }

\* GENERATORS
GeneratedCases ==
    gen_clean_uplift \cup gen_guardrail_breach \cup gen_practically_small
    \cup gen_segment_conflict \cup gen_long_term_reversal

\* a generated case directory as decision_agent.run and check_cases read it
InitGenerated ==
    /\ \E c \in GeneratedCases :
         /\ contract = c.contract
         /\ rows = c.data
         /\ truth = Some(c.expected_decision)
    /\ policy = DefaultPolicy
    /\ pc = "loaded"
    /\ signals = Null
    /\ dlocals = Null
    /\ decision = Null
    /\ conf = Null
    /\ runs = <<>>
    /\ change = [kind |-> "fresh", metric |-> ""]
    /\ fs = NoRunsDir
    /\ wf = Idle

NextGenerated == Extract \/ Decide \/ Score \/ Finish

SpecGenerated == InitGenerated /\ [][NextGenerated]_vars

\* match = actual == expected (check_cases)
Match == Some(decision.decision) = truth

\* C22: every case the generator can produce is classified by the engine,
\* under the policy defaults, with exactly the expected_decision of its
\* truth file, so the self-check's comparison succeeds on it.
C22_GeneratedCasesMatchTruth == Decided => Match

\* a generated segment-conflict case has been classified by step 3, as its
\* truth file expects
C22_Witness ==
    /\ pc = "done"
    /\ truth = Some("investigate")
    /\ decision = Result("investigate",
                         <<Code("segment_conflict"), Code("not_significant")>>)
    /\ contract.segments = <<"mobile", "desktop">>

----------------------------------------------------------------------------
(* The workflow runner (src/42_workflows/ab_factory/run_case.py) and the   *)
(* self-check (selfcheck.py).                                              *)
(*                                                                         *)
(* A run id is <<ts, rnd>>: the second of the clock and the random suffix. *)
(* fs.dirs is the set of run ids whose directory exists, fs.traces maps a  *)
(* run id to the events of its traces.jsonl, fs.reports maps a run id to   *)
(* the case its final_report.md was written for, fs.index is the sequence  *)
(* of records of index.jsonl (Null while the file does not exist).         *)
(* Agents are taken as steps that return a result or raise; the decision   *)
(* agent's result is any of the three decisions.                           *)

engine == <<pc, policy, contract, rows, signals, dlocals, decision, conf, runs, change>>

AGENTS == <<"reader", "stats", "decision", "viz">>

Decisions == {"ship", "do_not_ship", "investigate"}

\* the record trace.emit appends (ts, message and payload left out)
Event(case_id, agent, step, event, severity) ==
    [ case_id |-> case_id, agent |-> agent, step |-> step, event |-> event,
      severity |-> severity ]

\* the event an agent emits when it starts
AgentStartEvent(case_id, agent) ==
    Event(case_id, agent, "start",
          CASE agent = "reader" -> "case_loaded"
            [] agent = "decision" -> "policy_loaded"
            [] OTHER -> "parsed",
          "info")

\* the event an agent emits before it returns
AgentDoneEvent(case_id, agent) ==
    Event(case_id, agent, "done",
          CASE agent = "stats" -> "checks_done"
            [] agent = "decision" -> "decision_made"
            [] OTHER -> "artifact_written",
          "info")

\* with open(path, "a"): the lines are appended, the file created if absent
AppendTo(files, run_id, events) ==
    IF run_id \in DOMAIN files
    THEN [files EXCEPT ![run_id] = @ \o events]
    ELSE files @@ (run_id :> events)

\* with open(path, "w"): the file is created or overwritten
WriteTo(files, run_id, content) ==
    [r \in DOMAIN files \cup {run_id} |-> IF r = run_id THEN content ELSE files[r]]

\* the files of the run directories that are left
Restrict(files, keep_dirs) == [r \in DOMAIN files \cap keep_dirs |-> files[r]]

\* the names RUNS_DIR.iterdir() yields, as sort keys: a run directory
\* "YYYYMMDD_HHMMSS_xxxx" starts with a digit, "index.jsonl" with a letter,
\* and letters sort after digits
DirEntry(run_id) == [name |-> <<0, run_id[1], run_id[2]>>, is_dir |-> TRUE, run_id |-> run_id]

IndexEntry == [name |-> <<1, 0, 0>>, is_dir |-> FALSE, run_id |-> <<0, 0>>]

Listing(runs_dir) ==
    {DirEntry(r) : r \in runs_dir.dirs}
    \cup (IF runs_dir.index # Null THEN {IndexEntry} ELSE {})

\* path comparison
NameLess(a, b) ==
    \/ a[1] < b[1]
    \/ a[1] = b[1] /\ a[2] < b[2]
    \/ a[1] = b[1] /\ a[2] = b[2] /\ a[3] < b[3]

\* sorted(..., reverse=True)
RECURSIVE SortedReverse(_)
SortedReverse(entries) ==
    IF entries = {} THEN <<>>
    ELSE LET top == CHOOSE x \in entries :
                       \A y \in entries : y = x \/ NameLess(y.name, x.name)
         IN  <<top>> \o SortedReverse(entries \ {top})

\* cleanup_old_runs(keep)
cleanup_old_runs(runs_dir, keep) ==
    LET run_dirs == SortedReverse(Listing(runs_dir))
        removed == { run_dirs[j].run_id : j \in { n \in DOMAIN run_dirs :
                                                   n > keep /\ run_dirs[n].is_dir } }
        left == runs_dir.dirs \ removed
    IN  [ runs_dir EXCEPT !.dirs = left,
                          !.traces = Restrict(@, left),
                          !.reports = Restrict(@, left) ]

\* _append_index: one line appended to index.jsonl, the file created if absent
append_index(runs_dir, record) ==
    [ runs_dir EXCEPT !.index = Some(Append(GetOr(@, <<>>), record)) ]

MaxCases == 2

MaxKeep == 2

MaxClock == 1

MaxRnd == 1

MaxInvocations == 2

\* a case directory: contract.json's case_id and truth.json's expected_decision
CaseDir(n) ==
    [ case_id |-> n,
      expected_decision |-> IF n % 2 = 1 THEN "ship" ELSE "do_not_ship" ]

\* discover_cases(root): the sorted case directories under the root
CaseLists == { [n \in 1..len |-> CaseDir(n)] : len \in 0..MaxCases }

\* --keep-runs: absent or N
KeepRuns == {Null} \cup {Some(n) : n \in 0..MaxKeep}

\* a process at the start of main(): its arguments, the cases its root
\* holds, the second its clock shows
Process(prog, keep, cases, clock, inv) ==
    [ pc |-> "main", prog |-> prog, keep |-> keep, cases |-> cases, k |-> 1,
      run_id |-> Null, i |-> 0, result |-> Null,
      passed |-> 0, printed |-> <<>>, message |-> Null, status |-> Null,
      raised |-> FALSE, clock |-> clock, inv |-> inv ]

\* a line printed at the end of main, N being the number it mentions
Msg(text, n) == [text |-> text, n |-> n]

\* sys.exit(status), or the end of main() (status 0)
Exit(w, status, message) ==
    [w EXCEPT !.pc = "exit", !.status = Some(status), !.message = message]

CurrentCase == wf.cases[wf.k]

CurrentRun == Val(wf.run_id)

\* run_case.main up to the loop: --keep-runs, discover_cases
RunCaseMain ==
    /\ wf.pc = "main"
    /\ wf.prog = "run_case"
    /\ fs' = IF wf.keep # Null THEN cleanup_old_runs(fs, Val(wf.keep)) ELSE fs
    /\ wf' = IF wf.cases = <<>>
             THEN Exit(wf, 1, Some(Msg("No cases found.", 0)))
             ELSE [wf EXCEPT !.pc = "loop"]
    /\ UNCHANGED <<engine, truth>>

\* selfcheck.main up to check_cases
SelfcheckMain ==
    /\ wf.pc = "main"
    /\ wf.prog = "selfcheck"
    /\ wf' = IF wf.cases = <<>>
             THEN Exit(wf, 1, Some(Msg("No cases found.", 0)))
             ELSE [wf EXCEPT !.pc = "loop"]
    /\ UNCHANGED <<engine, truth, fs>>

\* make_run_id: the ids it can return when the clock last showed `clock`:
\* the second the clock shows now and a random suffix (0..0xFFFF in the
\* code, 0..MaxRnd here); nothing is consulted about ids already in use
make_run_id(clock) ==
    { <<ts, rnd>> : ts \in clock..MaxClock, rnd \in 0..MaxRnd }

\* the head of the loop over the cases: (self-check: truth.json is read,)
\* run_id = make_run_id()
LoopNext ==
    /\ wf.pc = "loop"
    /\ wf.k <= Len(wf.cases)
    /\ \E id \in make_run_id(wf.clock) :
         wf' = [wf EXCEPT !.run_id = Some(id), !.clock = id[1],
                          !.pc = "run_one_case", !.i = 0, !.result = Null]
    /\ truth' = IF wf.prog = "selfcheck"
                THEN Some(CurrentCase.expected_decision)
                ELSE truth
    /\ UNCHANGED <<engine, fs>>

\* run_one_case up to the agent loop: the run directory is made
\* (exist_ok=True) and workflow_start is emitted
RunStart ==
    /\ wf.pc = "run_one_case"
    /\ fs' = [ fs EXCEPT
                 !.dirs = @ \cup {CurrentRun},
                 !.traces = AppendTo(@, CurrentRun,
                     << Event(CurrentCase.case_id, "workflow", "start",
                              "workflow_start", "info") >>) ]
    /\ wf' = [wf EXCEPT !.pc = "agents"]
    /\ UNCHANGED <<engine, truth>>

\* one pass of the agent loop in which agent_mod.run returns
AgentReturns ==
    /\ wf.pc = "agents"
    /\ wf.i < Len(AGENTS)
    /\ LET agent == AGENTS[wf.i + 1]
       IN  /\ fs' = [ fs EXCEPT !.traces = AppendTo(@, CurrentRun,
                        << AgentStartEvent(CurrentCase.case_id, agent),
                           AgentDoneEvent(CurrentCase.case_id, agent) >>) ]
           /\ \E d \in (IF agent = "decision" THEN Decisions ELSE {"-"}) :
                wf' = [wf EXCEPT
                         !.i = @ + 1,
                         !.result = IF agent = "decision" THEN Some(d) ELSE @,
                         !.pc = IF wf.i + 1 = Len(AGENTS) THEN "report" ELSE "agents"]
    /\ UNCHANGED <<engine, truth>>

\* (variant: a failed run is recorded in index.jsonl too)
AgentRaisesIndexed ==
    /\ wf.pc = "agents"
    /\ wf.i < Len(AGENTS)
    /\ fs' = append_index(
               [ fs EXCEPT !.traces = AppendTo(@, CurrentRun,
                   << Event(CurrentCase.case_id, AGENTS[wf.i + 1], "error",
                            "workflow_error", "error") >>) ],
               [ run_id |-> CurrentRun, case_id |-> CurrentCase.case_id,
                 decision |-> "?" ])
    /\ wf' = [Exit(wf, 1, Null) EXCEPT !.raised = TRUE]
    /\ UNCHANGED <<engine, truth>>

\* (variant: the exception is logged and the loop goes on with the next agent)
AgentRaisesSwallowed ==
    /\ wf.pc = "agents"
    /\ wf.i < Len(AGENTS)
    /\ fs' = [ fs EXCEPT !.traces = AppendTo(@, CurrentRun,
                 << Event(CurrentCase.case_id, AGENTS[wf.i + 1], "error",
                          "workflow_error", "error") >>) ]
    /\ wf' = [wf EXCEPT !.i = @ + 1,
                        !.result = IF AGENTS[wf.i + 1] = "decision" THEN Some("?") ELSE @,
                        !.pc = IF wf.i + 1 = Len(AGENTS) THEN "report" ELSE "agents"]
    /\ UNCHANGED <<engine, truth>>

\* one pass of the agent loop in which agent_mod.run raises, before or
\* after the agent's own start event: workflow_error is emitted and the
\* exception leaves run_one_case and the process (exit status 1)
AgentRaises ==
    /\ wf.pc = "agents"
    /\ wf.i < Len(AGENTS)
    /\ LET agent == AGENTS[wf.i + 1]
       IN  \E started \in BOOLEAN :
             fs' = [ fs EXCEPT !.traces = AppendTo(@, CurrentRun,
                       (IF started
                        THEN <<AgentStartEvent(CurrentCase.case_id, agent)>>
                        ELSE <<>>)
                       \o << Event(CurrentCase.case_id, agent, "error",
                                   "workflow_error", "error") >>) ]
    /\ wf' = [Exit(wf, 1, Null) EXCEPT !.raised = TRUE]
    /\ UNCHANGED <<engine, truth>>

\* final_report.md is written
WriteFinalReport ==
    /\ wf.pc = "report"
    /\ fs' = [fs EXCEPT !.reports = WriteTo(@, CurrentRun, CurrentCase.case_id)]
    /\ wf' = [wf EXCEPT !.pc = "done_event"]
    /\ UNCHANGED <<engine, truth>>

\* workflow_done is emitted
EmitWorkflowDone ==
    /\ wf.pc = "done_event"
    /\ fs' = [ fs EXCEPT !.traces = AppendTo(@, CurrentRun,
                 << Event(CurrentCase.case_id, "workflow", "done",
                          "workflow_done", "info") >>) ]
    /\ wf' = [wf EXCEPT !.pc = "index"]
    /\ UNCHANGED <<engine, truth>>

\* _append_index, and run_one_case returns its result
AppendIndex ==
    /\ wf.pc = "index"
    /\ fs' = append_index(fs, [ run_id |-> CurrentRun,
                                case_id |-> CurrentCase.case_id,
                                decision |-> Val(wf.result) ])
    /\ wf' = [wf EXCEPT !.pc = "returned"]
    /\ UNCHANGED <<engine, truth>>

\* run_case.main: all_results.append(result)
RunCaseCollect ==
    /\ wf.pc = "returned"
    /\ wf.prog = "run_case"
    /\ wf' = [wf EXCEPT !.k = @ + 1, !.pc = "loop"]
    /\ UNCHANGED <<engine, truth, fs>>

\* run_case.main: the loop is over
RunCaseDone ==
    /\ wf.pc = "loop"
    /\ wf.prog = "run_case"
    /\ wf.k > Len(wf.cases)
    /\ wf' = Exit(wf, 0, Some(Msg("Done. N cases", Len(wf.cases))))
    /\ UNCHANGED <<engine, truth, fs>>

\* the process is started again on the same runs directory
InvokeRunCase ==
    /\ wf.pc = "exit"
    /\ wf.inv < MaxInvocations
    /\ \E keep \in KeepRuns, cases \in CaseLists :
         wf' = Process("run_case", keep, cases, wf.clock, wf.inv + 1)
    /\ UNCHANGED <<engine, truth, fs>>

\* the engine's variables while only the workflow is looked at
EngineIdle ==
    /\ pc = "idle"
    /\ policy = Null
    /\ contract = Null
    /\ rows = <<>>
    /\ signals = Null
    /\ dlocals = Null
    /\ decision = Null
    /\ conf = Null
    /\ runs = <<>>
    /\ change = [kind |-> "fresh", metric |-> ""]

InitRunCase ==
    /\ EngineIdle
    /\ truth = Null
    /\ fs = NoRunsDir
    /\ \E keep \in KeepRuns, cases \in CaseLists :
         wf = Process("run_case", keep, cases, 0, 1)

NextRunCase ==
    \/ RunCaseMain \/ LoopNext \/ RunStart \/ AgentReturns \/ AgentRaises
    \/ WriteFinalReport \/ EmitWorkflowDone \/ AppendIndex
    \/ RunCaseCollect \/ RunCaseDone \/ InvokeRunCase

SpecRunCase == InitRunCase /\ [][NextRunCase]_vars

\* one invocation of run_case.py --all, from its start to its exit
NextRunAll ==
    \/ RunCaseMain \/ LoopNext \/ RunStart \/ AgentReturns \/ AgentRaises
    \/ WriteFinalReport \/ EmitWorkflowDone \/ AppendIndex
    \/ RunCaseCollect \/ RunCaseDone

SpecRunAll == InitRunCase /\ [][NextRunAll]_vars

----------------------------------------------------------------------------
(* Claims about the runs directory (SpecRunCase) and about one call of      *)
(* run_one_case (SpecRunAll; they hold under SpecRunCase as well)          *)

\* run directory names compare as their (ts, rnd) pairs
RunIdLess(a, b) == a[1] < b[1] \/ (a[1] = b[1] /\ a[2] < b[2])

\* the n most recent of a set of run directories (all of them if fewer)
MostRecent(dirs, n) ==
    { d \in dirs : Cardinality({ e \in dirs : RunIdLess(d, e) }) < n }

\* the step in which main() calls cleanup_old_runs(N)
CleanupStep == wf.pc = "main" /\ wf.prog = "run_case" /\ wf.keep # Null /\ wf'.pc # "main"

\* C23: after cleanup_old_runs(N) on a runs directory holding any number of
\* run directories together with the index.jsonl written by earlier runs,
\* exactly the N most recent run directories (all of them if fewer than N)
\* remain and all older ones are removed.
C23_KeepsMostRecent ==
    [][ CleanupStep => fs'.dirs = MostRecent(fs.dirs, Val(wf.keep)) ]_vars

\* what the code does while index.jsonl exists: the file takes the first
\* place of the reverse-sorted listing, so N - 1 run directories are kept
C23_IndexTakesASlot ==
    [][ CleanupStep =>
          fs'.dirs = MostRecent(fs.dirs,
                                IF fs.index # Null /\ Val(wf.keep) > 0
                                THEN Val(wf.keep) - 1
                                ELSE Val(wf.keep)) ]_vars

\* a run of run_one_case is under way or has just ended, and its directory
\* is still there
InRun ==
    /\ wf.run_id # Null
    /\ wf.pc \in {"agents", "report", "done_event", "index", "returned", "exit"}

\* the events the current run has appended to its traces.jsonl: those from
\* the last workflow_start of the file on (runs do not overlap in time)
RunEvents ==
    LET t == fs.traces[CurrentRun]
        from == CHOOSE p \in DOMAIN t :
                   /\ t[p].event = "workflow_start"
                   /\ \A q \in DOMAIN t : q > p => t[q].event # "workflow_start"
    IN  SubSeq(t, from, Len(t))

\* the place of an agent in AGENTS
AgentIndex(agent) == CHOOSE n \in DOMAIN AGENTS : AGENTS[n] = agent

\* the agents that have appended their done event
Returned(events) == { events[p].agent : p \in { q \in DOMAIN events : events[q].step = "done"
                                                  /\ events[q].agent # "workflow" } }

ErrorEvents(events) == { p \in DOMAIN events : events[p].step = "error" }

\* every event of an agent comes after the done event of every earlier agent
AgentsInOrder(events) ==
    \A q \in DOMAIN events :
        events[q].agent # "workflow" =>
            \A n \in 1..(AgentIndex(events[q].agent) - 1) :
                \E p \in 1..(q - 1) :
                    events[p].agent = AGENTS[n] /\ events[p].step = "done"

\* C24: run_one_case runs the agents strictly in the order reader, stats,
\* decision, viz, each one starting only after all earlier ones have
\* returned; if an agent raises, exactly one trace event with step=error,
\* event=workflow_error, severity=error and agent=the failing agent is
\* appended, the exception propagates (the process ends with status 1) and
\* no later agent runs.
C24_AgentsInOrderAndErrorStops ==
    InRun =>
      LET events == RunEvents
          errors == ErrorEvents(events)
      IN  /\ AgentsInOrder(events)
          /\ Returned(events) = { AGENTS[n] : n \in 1..wf.i }
          /\ IF wf.raised
             THEN /\ errors = {Len(events)}
                  /\ events[Len(events)]
                       = Event(CurrentCase.case_id, AGENTS[wf.i + 1], "error",
                               "workflow_error", "error")
                  /\ wf.pc = "exit"
                  /\ wf.status = Some(1)
             ELSE errors = {}

\* the stats agent has raised after its start event: the reader had
\* returned, one error event names stats, decision and viz did not run
C24_Witness ==
    /\ InRun
    /\ wf.raised
    /\ [p \in DOMAIN RunEvents |-> <<RunEvents[p].agent, RunEvents[p].step>>]
         = << <<"workflow", "start">>, <<"reader", "start">>, <<"reader", "done">>,
              <<"stats", "start">>, <<"stats", "error">> >>
    /\ wf.status = Some(1)

\* the records of index.jsonl, none while the file does not exist
IndexRecords(runs_dir) == GetOr(runs_dir.index, <<>>)

\* the record run_one_case hands to _append_index
RunRecord ==
    [ run_id |-> CurrentRun, case_id |-> CurrentCase.case_id,
      decision |-> Val(wf.result) ]

\* workflow_done was emitted and final_report.md written by the current run
DoneAndReported ==
    /\ RunEvents[Len(RunEvents)]
         = Event(CurrentCase.case_id, "workflow", "done", "workflow_done", "info")
    /\ CurrentRun \in DOMAIN fs.reports
    /\ fs.reports[CurrentRun] = CurrentCase.case_id

\* some final_report.md is created or rewritten by the step
ReportWritten ==
    \E r \in DOMAIN fs'.reports : r \notin DOMAIN fs.reports \/ fs'.reports[r] # fs.reports[r]

\* some workflow_done event is appended by the step
DoneEmitted ==
    \E r \in DOMAIN fs'.traces :
        /\ fs'.traces[r][Len(fs'.traces[r])].event = "workflow_done"
        /\ (r \notin DOMAIN fs.traces \/ Len(fs'.traces[r]) > Len(fs.traces[r]))

\* C25: each call of run_one_case appends exactly one record to index.jsonl
\* if all four agents succeed, and does so after the workflow_done event
\* and the final report were written; it appends no index record, writes no
\* final_report.md and emits no workflow_done if any agent fails; and
\* workflow_start is the first event of every trace file.
C25_IndexRecordPerSuccessfulRun ==
    /\ [] ( /\ \A r \in DOMAIN fs.traces :
                 /\ fs.traces[r][1].event = "workflow_start"
                 /\ fs.traces[r][1].agent = "workflow"
            /\ wf.pc = "returned" =>
                 /\ wf.i = Len(AGENTS)
                 /\ IndexRecords(fs)[Len(IndexRecords(fs))] = RunRecord
                 /\ DoneAndReported )
    /\ [][ /\ IndexRecords(fs') # IndexRecords(fs) =>
                /\ wf.pc = "index" /\ wf'.pc = "returned"
                /\ wf.i = Len(AGENTS) /\ ~wf'.raised
                /\ IndexRecords(fs') = Append(IndexRecords(fs), RunRecord)
                /\ DoneAndReported
           /\ wf.pc = "index" => Len(IndexRecords(fs')) = Len(IndexRecords(fs)) + 1
           /\ ReportWritten => wf.pc = "report" /\ wf.i = Len(AGENTS) /\ ~wf'.raised
           /\ DoneEmitted => wf.pc = "done_event" /\ wf.i = Len(AGENTS) /\ ~wf'.raised
           /\ wf'.raised => wf'.pc = "exit" ]_vars

\* the first case's run has its index record; the second case's run, in a
\* directory of its own, failed in the decision agent: no record, no
\* report and no workflow_done for it
C25_Witness ==
    /\ wf.raised
    /\ wf.k = 2
    /\ wf.i = 2
    /\ Len(IndexRecords(fs)) = 1
    /\ IndexRecords(fs)[1].case_id = 1
    /\ IndexRecords(fs)[1].run_id # CurrentRun
    /\ CurrentRun \notin DOMAIN fs.reports
    /\ \A p \in DOMAIN RunEvents : RunEvents[p].event # "workflow_done"

----------------------------------------------------------------------------
(* The self-check (SpecSelfcheck): check_cases and the end of main *)

\* check_cases: actual = result["decision"]; match; passed += 1; the line
\* printed for the case
SelfcheckCollect ==
    /\ wf.pc = "returned"
    /\ wf.prog = "selfcheck"
    /\ LET actual == Val(wf.result)
           expected == Val(truth)
           match == actual = expected
       IN  wf' = [wf EXCEPT
                    !.passed = IF match THEN @ + 1 ELSE @,
                    !.printed = Append(@, [ case_id |-> CurrentCase.case_id,
                                            actual |-> actual, expected |-> expected,
                                            icon |-> IF match THEN "PASS" ELSE "FAIL" ]),
                    !.k = @ + 1,
                    !.pc = "loop"]
    /\ UNCHANGED <<engine, truth, fs>>

\* (variant: failures are reported without sys.exit(1))
SelfcheckReportNoExit ==
    /\ wf.pc = "loop"
    /\ wf.prog = "selfcheck"
    /\ wf.k > Len(wf.cases)
    /\ LET total == Len(wf.cases)
       IN  wf' = IF wf.passed = total
                 THEN Exit(wf, 0, Some(Msg("All N cases PASS.", total)))
                 ELSE Exit(wf, 0, Some(Msg("FAILURES: N of total.", total - wf.passed)))
    /\ UNCHANGED <<engine, truth, fs>>

\* main after check_cases returned (passed, total)
SelfcheckReport ==
    /\ wf.pc = "loop"
    /\ wf.prog = "selfcheck"
    /\ wf.k > Len(wf.cases)
    /\ LET total == Len(wf.cases)
       IN  wf' = IF wf.passed = total
                 THEN Exit(wf, 0, Some(Msg("All N cases PASS.", total)))
                 ELSE Exit(wf, 1, Some(Msg("FAILURES: N of total.", total - wf.passed)))
    /\ UNCHANGED <<engine, truth, fs>>

InitSelfcheck ==
    /\ EngineIdle
    /\ truth = Null
    /\ fs = NoRunsDir
    /\ \E cases \in CaseLists : wf = Process("selfcheck", Null, cases, 0, 1)

NextSelfcheck ==
    \/ SelfcheckMain \/ LoopNext \/ RunStart \/ AgentReturns \/ AgentRaises
    \/ WriteFinalReport \/ EmitWorkflowDone \/ AppendIndex
    \/ SelfcheckCollect \/ SelfcheckReport

SpecSelfcheck == InitSelfcheck /\ [][NextSelfcheck]_vars

\* the cases checked so far whose run returned the expected decision: the
\* decision each run recorded in index.jsonl against the case's truth file
PassedCases ==
    { p \in DOMAIN wf.printed :
        IndexRecords(fs)[p].decision = wf.cases[p].expected_decision }

\* C26: the self-check counts a case as passed exactly when the decision
\* returned by the run equals the expected_decision of its truth file, so
\* 0 <= passed <= total; it reports success (exit status 0, "All N cases
\* PASS") iff every discovered case passed; with no cases discovered or any
\* mismatch it exits with status 1.
C26_SelfcheckVerdict ==
    /\ wf.passed = Cardinality(PassedCases)
    /\ 0 <= wf.passed /\ wf.passed <= Len(wf.cases)
    /\ \A p \in DOMAIN wf.printed :
         wf.printed[p].icon = "PASS" <=> p \in PassedCases
    /\ wf.pc = "exit" =>
         /\ wf.status = Some(0) <=>
              /\ wf.cases # <<>>
              /\ PassedCases = DOMAIN wf.cases
         /\ wf.status = Some(0) <=>
              wf.message = Some(Msg("All N cases PASS.", Len(wf.cases)))
         /\ wf.status # Some(0) => wf.status = Some(1)

\* two cases were checked, the second run returned another decision than
\* its truth file expects: one passed, exit status 1
C26_Witness ==
    /\ wf.pc = "exit"
    /\ Len(wf.cases) = 2
    /\ wf.passed = 1
    /\ Len(wf.printed) = 2
    /\ wf.printed[2] = [ case_id |-> 2, actual |-> "investigate",
                         expected |-> "do_not_ship", icon |-> "FAIL" ]
    /\ wf.status = Some(1)
    /\ wf.message = Some(Msg("FAILURES: N of total.", 1))

----------------------------------------------------------------------------
(* Run directories (SpecRunCase) *)

\* the runs that have written into a traces.jsonl: one workflow_start each
RunsIn(trace) == { p \in DOMAIN trace : trace[p].event = "workflow_start" }

\* C30: distinct case runs never share a run directory: across any sequence
\* of run_one_case calls, each with a fresh make_run_id(), no two runs get
\* the same run_id, so one run's traces.jsonl and artifacts are never
\* appended to or overwritten by another run.
C30_RunDirectoriesNotShared ==
    \A r \in DOMAIN fs.traces : Cardinality(RunsIn(fs.traces[r])) = 1

----------------------------------------------------------------------------
(* Soft guardrail violations and the verdict (SpecGuardrails) *)

\* the signal sets that differ from `s` at most in soft_violations and
\* guardrail_soft_violated
SoftVariants(s) ==
    { [ s EXCEPT !.soft_violations = sv, !.guardrail_soft_violated = Len(sv) > 0 ] :
        sv \in { <<>>, <<SoftCode("ctr")>>, <<SoftCode("fillrate"), SoftCode("ctr")>> } }
    \cup { [ s EXCEPT !.guardrail_soft_violated = b ] : b \in BOOLEAN }

\* the signal set without its soft violations
SoftCleared(s) == [ s EXCEPT !.soft_violations = <<>>, !.guardrail_soft_violated = FALSE ]

\* C27: soft guardrail violations never influence the verdict: for any two
\* signal sets that differ only in soft_violations / guardrail_soft_violated
\* _make_decision returns the same decision and reasons; a case with only
\* soft violations that is significant and above the practical threshold is
\* shipped; the soft violation changes only the confidence score, by the
\* weight of the guardrail_soft_violation factor.
C27_SoftViolationsLeaveVerdict ==
    /\ Decided =>
         /\ \A alt \in SoftVariants(signals) :
              make_decision(alt, contract, policy) = decision
         /\ ( /\ signals.guardrail_soft_violated
              /\ ~signals.guardrail_hard_violated
              /\ ~signals.long_term_reversal
              /\ ~signals.segment_conflict
              /\ signals.is_significant
              /\ dlocals.above_practical )
            => decision = Result("ship", <<Code("primary_uplift")>>)
    /\ Scored =>
         LET plain == compute_confidence(SoftCleared(signals), policy)
         IN  /\ conf.score - plain.score
                  = IF signals.guardrail_soft_violated
                    THEN WeightOf(policy, "guardrail_soft_violation")
                    ELSE 0
             /\ FactorNames(conf) \ {"guardrail_soft_violation"} = FactorNames(plain)
             /\ conf.missing_evidence = plain.missing_evidence

\* a significant uplift above the threshold with a soft violation on ctr
\* and no other flag was shipped, and the scorer counted the soft violation
C27_Witness ==
    /\ pc = "done"
    /\ signals.soft_violations = <<SoftCode("ctr")>>
    /\ signals.hard_violations = <<>>
    /\ decision = Result("ship", <<Code("primary_uplift")>>)
    /\ "guardrail_soft_violation" \in FactorNames(conf)
    /\ conf.score - compute_confidence(SoftCleared(signals), policy).score = -500

----------------------------------------------------------------------------
(* What a ship verdict implies (SpecDecide) *)

\* reversal_action and conflict_action are verdicts, and neither is ship
ActionsNeverShip ==
    /\ GetOr(policy.reversal_action, "do_not_ship") \in Decisions \ {"ship"}
    /\ GetOr(policy.conflict_action, "investigate") \in Decisions \ {"ship"}

\* C28: provided the policy's reversal_action and conflict_action are each
\* one of ship / do_not_ship / investigate and neither is ship, every
\* decision has a verdict in {ship, do_not_ship, investigate} and a
\* non-empty reasons list, and a ship verdict implies no hard guardrail
\* violation, no long-term reversal, no segment conflict, a significant
\* primary metric and |uplift| >= the effective practical threshold, with
\* reasons exactly [primary_uplift].
C28_ShipImpliesCleanCase ==
    (Decided /\ ActionsNeverShip) =>
      /\ decision.decision \in Decisions
      /\ decision.reasons # <<>>
      /\ decision.decision = "ship" =>
           /\ ~signals.guardrail_hard_violated
           /\ signals.hard_violations = <<>>
           /\ ~signals.long_term_reversal
           /\ ~signals.segment_conflict
           /\ signals.is_significant
           /\ signals.primary_uplift_pct # Null
           /\ Abs(Val(signals.primary_uplift_pct))
                >= EffectivePracticalPct(contract, policy)
           /\ decision.reasons = <<Code("primary_uplift")>>

\* a negative effect of 3.2% that is significant and clears the threshold
\* was shipped under a policy whose actions are investigate / do_not_ship
C28_Witness ==
    /\ pc = "done"
    /\ policy.reversal_action = Some("investigate")
    /\ policy.conflict_action = Some("do_not_ship")
    /\ policy.require_significance_for_ship = Some(FALSE)
    /\ signals.primary_uplift_pct = Some(-3200)
    /\ decision = Result("ship", <<Code("primary_uplift")>>)

\* without the premise: a policy whose reversal_action is ship ships a
\* case with a long-term reversal
ShipActionShipsReversal ==
    /\ pc = "done"
    /\ policy.reversal_action = Some("ship")
    /\ signals.long_term_reversal
    /\ decision.decision = "ship"

----------------------------------------------------------------------------
(* Long-term evidence (SpecEvidence) *)

LongTermMissing == Code("long_term") \in SeqToSet(conf.missing_evidence)

\* C29: with policy long_term.enabled true, long_term is in missing_evidence
\* exactly when the reversal flag is false (has_long_term_data is the
\* reversal flag itself), so every case whose notes carry no reversal
\* keyword receives the evidence_sparse factor, and the long_term_reversal
\* and evidence_sparse-for-long_term conditions are mutually exclusive.
C29_LongTermEvidence ==
    (Scored /\ policy.lt_enabled = Some(TRUE)) =>
      /\ signals.has_long_term_data = signals.long_term_reversal
      /\ LongTermMissing <=> ~signals.long_term_reversal
      /\ LongTermMissing <=> ~NotesMentionReversal
      /\ ~NotesMentionReversal => "evidence_sparse" \in FactorNames(conf)
      /\ ~("long_term_reversal" \in FactorNames(conf) /\ LongTermMissing)
      /\ "long_term_reversal" \in FactorNames(conf) \/ LongTermMissing

\* a complete, significant case with plain notes: long_term is the only
\* missing evidence and evidence_sparse is added for it
C29_Witness ==
    /\ pc = "done"
    /\ policy.lt_enabled = Some(TRUE)
    /\ ~NotesMentionReversal
    /\ conf.missing_evidence = <<Code("long_term")>>
    /\ "evidence_sparse" \in FactorNames(conf)
    /\ "long_term_reversal" \notin FactorNames(conf)
    /\ decision = Result("ship", <<Code("primary_uplift")>>)

====
